---------------------------- MODULE Spec2Model ----------------------------
(***************************************************************************)
(* A model of marbl-diags: configuration resolution, cache locations, the  *)
(* on-disk cache written by cache_dataset, the orchestrator that opens    *)
(* data sources and reduces them to climatologies, and the monthly        *)
(* climatology computation itself.                                         *)
(*                                                                         *)
(* Python values are modelled by strings ("None", "False", "True", ...);   *)
(* a Python dict is a function whose DOMAIN is the set of its keys.        *)
(* Each subsystem has its own specification (SpecConfig, SpecKeys, ...);   *)
(* a specification leaves the variables of the other subsystems at their   *)
(* initial values.                                                         *)
(***************************************************************************)
EXTENDS Integers, Sequences, FiniteSets, TLC

VARIABLES
    \* ---- configuration resolution
    analysis_config,    \* analysis_dict['config'] / analysis_dicts['_settings']: the override tier
    config_dict,        \* config_dict / global_config: the global tier
    analysis_keys,      \* the keys of analysis_dict other than 'config'
    ds_dict,            \* data source name -> the keys its section holds
    category_name,      \* AnalysisCategory's category_name
    self_config_dict,   \* GenericAnalysisElement._config_dict once populated
    element_status,     \* how GenericAnalysisElement.__init__ ended
    category_settings,  \* AnalysisCategory.category_settings once merged
    category_status,    \* how AnalysisCategory.__init__ ended
    \* ---- cache locations
    key_a,              \* one (unit, source, datestr, state, format) of a cached payload
    key_b,              \* another one
    loc_a,              \* the data and metadata locations built for key_a
    loc_b,              \* the data and metadata locations built for key_b
    keys_built,         \* which orchestrator built loc_a and loc_b
    \* ---- the cache directory
    cache_dir_exists,   \* whether the directory of the cache locations exists
    json_files,         \* metadata location -> the .json file there
    zarr_stores,        \* data location -> the array store there
    \* ---- one caller of cache_dataset
    put_pc,             \* where cache_dataset stands
    put_handle,         \* the data source object whose cache_dataset runs
    put_loc,            \* its arguments cached_location and cached_var_dict
    puts,               \* calls of cache_dataset so far; a call's generation
    prev_record,        \* the two files as the running call found them
    last_stored,        \* the object as it was when cache_dataset last returned
    reopened,           \* what the lookup of put_loc and CachedClimoData gave
    \* ---- one analysis unit (AnalysisElements)
    cache_data,         \* self.cache_data
    cache_dir_set,      \* whether _config_dict has the key 'cache_dir'
    operations,         \* _config_dict['operations']
    source_configs,     \* _config_dict['data_sources']: name -> its section
    data_sources,       \* self.data_sources: name -> the object opened for it
    run_pc,             \* where the construction of the unit stands
    run_error,          \* the exception that ended it, if any
    cur_source,         \* index in RunOrder of the data source being processed
    cur_op,             \* index in ops_list of the operation being applied
    ops_list,           \* the list _open_datasets hands to _operate_on_datasets
    lookup_found,       \* name -> what was at its cache locations when it was opened
    compute_calls,      \* name -> calls of its compute_mon_climatology in this run
    runs,               \* how many times the unit has been constructed
    \* ---- one dataset held in memory
    ds,                 \* self.ds
    ds_created,         \* the dataset as the object first held it
    first_month,        \* the calendar month (0 is January) of its first time step
    climo_pc,           \* where the calls of compute_mon_climatology stand
    climo_error,        \* the exception the last call raised, if any
    tb_name,            \* the name the last time bounds lookup found
    \* ---- one unit and its analysis operations
    elements_config_dict, \* config_dict of AnalysisElements.__init__
    elements_is_climo,  \* is_climo as __init__ worked it out
    elements_pc,        \* where the unit stands
    elements_error,     \* the exception that ended it, if any
    global_config,      \* grid, reference, plot_format and keep_figs
    plot_datasets,      \* name -> dims['time'] and role of its data source
    field_pattern,      \* which values the plotted variable holds
    cur_operation,      \* index of the operation do_analysis calls next
    ref_name,           \* the reference the last operation identified
    figures,            \* the figures created so far, in order
    fig,                \* the unit's attribute fig
    \* ---- one element of an analysis category
    category_cache_data, \* _global_config['cache_data'] of the element
    category_operation, \* self.operation of the category
    category_ds_dict,   \* data source -> its section of the configuration
    category_found,     \* data source -> what lies at its cache locations
    element_data_sources, \* AnalysisElement.data_sources: label -> object
    cached_locations,   \* AnalysisElement._cached_locations
    cached_var_dicts,   \* AnalysisElement._cached_var_dicts
    category_pc,        \* where the construction of the element stands
    category_cur,       \* index of the data source the loops are at
    category_error,     \* the exception that ended it, if any
    category_puts       \* the locations cache_dataset was called with

configVars == <<analysis_config, config_dict, analysis_keys, ds_dict, category_name,
                self_config_dict, element_status, category_settings, category_status>>

keysVars == <<key_a, key_b, loc_a, loc_b, keys_built>>

fsVars == <<cache_dir_exists, json_files, zarr_stores>>

putVars == <<put_pc, put_handle, put_loc, puts, prev_record, last_stored, reopened>>

runVars == <<cache_data, cache_dir_set, operations, source_configs, data_sources,
             run_pc, run_error, cur_source, cur_op, ops_list, lookup_found,
             compute_calls, runs>>

climoVars == <<ds, ds_created, first_month, climo_pc, climo_error, tb_name>>

plotVars == <<elements_config_dict, elements_is_climo, elements_pc, elements_error,
              global_config, plot_datasets, field_pattern, cur_operation, ref_name,
              figures, fig>>

categoryVars == <<category_cache_data, category_operation, category_ds_dict,
                  category_found, element_data_sources, cached_locations,
                  cached_var_dicts, category_pc, category_cur, category_error,
                  category_puts>>

vars == <<configVars, keysVars, fsVars, putVars, runVars, climoVars, plotVars,
          categoryVars>>

notConfigVars == <<keysVars, fsVars, putVars, runVars, climoVars, plotVars, categoryVars>>

notKeysVars == <<configVars, fsVars, putVars, runVars, climoVars, plotVars, categoryVars>>

notCacheVars == <<configVars, keysVars, runVars, climoVars, plotVars, categoryVars>>

notRunVars == <<configVars, keysVars, climoVars, plotVars, categoryVars>>

notClimoVars == <<configVars, keysVars, fsVars, putVars, runVars, plotVars, categoryVars>>

notCategoryVars == <<configVars, keysVars, fsVars, putVars, runVars, climoVars,
                     plotVars>>

notPlotVars == <<configVars, keysVars, fsVars, putVars, runVars, climoVars, categoryVars>>

\* The empty dict.
EmptyDict == <<>>

\* Python truthiness of a modelled value.
Truthy(v) == v \notin {"None", "False", "", "[]", "0"}

-----------------------------------------------------------------------------
(* Configuration resolution                                                *)

\* Largest number of keys a user-written tier holds.
MaxTierKeys == 2

\* Keys a user may write into a tier, with the values tried for each;
\* 'colour' is a key no default names.
TierValues ==
    [cache_data  |-> {"True", "False"},
     cache_dir   |-> {"/scratch/cache", "/tmp/cache"},
     plot_format |-> {"pdf", "None"},
     reference   |-> {"WOA2013", "None"},
     colour      |-> {"red", "False"}]

TierKeys == DOMAIN TierValues

\* Every dict a tier may be.
Tiers ==
    UNION { [ks -> UNION {TierValues[k] : k \in ks}] :
                ks \in {s \in SUBSET TierKeys : Cardinality(s) <= MaxTierKeys} }

WellTyped(tier) == \A k \in DOMAIN tier : tier[k] \in TierValues[k]

config_defaults ==
    [dirout         |-> "None",
     reference      |-> "None",
     plot_bias      |-> "False",
     cache_data     |-> "False",
     stats_in_title |-> "False",
     plot_format    |-> "png",
     keep_figs      |-> "False",
     grid           |-> "None",
     depth_list     |-> "[0]"]

\* A precedence that skips an override whose value is falsy.
ConfigOptFalsyOverride(config_opt, override, global) ==
    IF config_opt \in DOMAIN override /\ Truthy(override[config_opt])
        THEN override[config_opt]
    ELSE IF config_opt \in DOMAIN global THEN global[config_opt]
    ELSE config_defaults[config_opt]

\* One pass of the loop that populates _config_dict.
ConfigOpt(config_opt, override, global) ==
    IF config_opt \in DOMAIN override THEN override[config_opt]
    ELSE IF config_opt \in DOMAIN global THEN global[config_opt]
    ELSE config_defaults[config_opt]

\* _config_dict as GenericAnalysisElement.__init__ populates it.
PopulateConfigDict(override, global) ==
    LET base == [config_opt \in DOMAIN config_defaults |->
                    ConfigOpt(config_opt, override, global)]
    IN  IF Truthy(base["cache_data"])
            THEN IF "cache_dir" \in DOMAIN override
                     THEN ("cache_dir" :> override["cache_dir"]) @@ base
                 ELSE IF "cache_dir" \in DOMAIN global
                     THEN ("cache_dir" :> global["cache_dir"]) @@ base
                 ELSE base
            ELSE base

\* Keys _check requires of _config_dict and of _analysis_dict.
RequiredConfigKeys ==
    {"keep_figs", "plot_format", "cache_data", "reference", "plot_bias",
     "stats_in_title", "dirout"}

RequiredAnalysisKeys == {"op", "sources"}

RequiredSourceKeys == {"source", "open_dataset"}

\* GenericAnalysisElement._check: the name of what it raises, or "ok".
\* With cache_data set it appends to consistency_dict['config_dict'], a key
\* the dict does not have (the list lives under '_config_dict').
Check(cfg, akeys, dsd) ==
    IF Truthy(cfg["cache_data"]) THEN "KeyError: 'config_dict'"
    ELSE IF ~ (RequiredConfigKeys \subseteq DOMAIN cfg) THEN "KeyError: Can not find key in _config_dict"
    ELSE IF ~ (RequiredAnalysisKeys \subseteq ({"config"} \cup akeys))
        THEN "KeyError: Can not find key in _analysis_dict"
    ELSE IF \E data_source \in DOMAIN dsd : ~ (RequiredSourceKeys \subseteq dsd[data_source])
        THEN "KeyError: Can not find key in data_sources"
    ELSE "ok"

category_settings_defaults(name) ==
    LET common == [dirout      |-> "None",
                   cache_data  |-> "False",
                   plot_format |-> "png",
                   keep_figs   |-> "False"]
    IN  IF name = "3d_ann_climo_maps_on_levels"
            THEN [variables                |-> "[nitrate,...,iron]",
                  levels                   |-> "[0,500,...,4000]",
                  reference                |-> "None",
                  plot_diff_from_reference |-> "False",
                  stats_in_title           |-> "True",
                  grid                     |-> "None",
                  climo_time_periods       |-> "[ANN]"] @@ common
            ELSE common

ValidCategories == {"3d_ann_climo_maps_on_levels", "plot_regional_time_series"}

\* Steps (2b)-(2d) of AnalysisCategory.__init__: start from '_settings', add
\* what global_config has and '_settings' lacks, then what the defaults have
\* and neither has.
MergeSettings(settings, global, defaults) ==
    [k \in DOMAIN settings \cup DOMAIN global \cup DOMAIN defaults |->
        IF k \in DOMAIN settings THEN settings[k]
        ELSE IF k \in DOMAIN global THEN global[k]
        ELSE defaults[k]]

\* Step (3) of AnalysisCategory.__init__. expected_keys is the view
\* returned by dict.keys(), which has no append.
CheckSettings(settings, defaults) ==
    IF Truthy(settings["cache_data"])
        THEN IF "cache_dir" \notin DOMAIN settings
                 THEN "KeyError: Must provide 'cache_dir'"
                 ELSE "AttributeError: 'dict_keys' object has no attribute 'append'"
    ELSE IF \E settings_key \in DOMAIN settings : settings_key \notin DOMAIN defaults
        THEN "KeyError: Unrecognized setting"
    ELSE "ok"

\* GenericAnalysisElement.__init__ up to and including self._check().
GenericAnalysisElement_init ==
    /\ element_status = "pending"
    /\ self_config_dict' = PopulateConfigDict(analysis_config, config_dict)
    /\ element_status' = Check(self_config_dict', analysis_keys, ds_dict)
    /\ UNCHANGED <<analysis_config, config_dict, analysis_keys, ds_dict, category_name,
                   category_settings, category_status>>
    /\ UNCHANGED notConfigVars

\* AnalysisCategory.__init__ up to the creation of the analysis elements.
AnalysisCategory_init ==
    /\ category_status = "pending"
    /\ IF category_name \notin ValidCategories
           THEN /\ category_status' = "ValueError: not a valid analysis category"
                /\ UNCHANGED category_settings
           ELSE /\ category_settings' =
                       MergeSettings(analysis_config, config_dict,
                                     category_settings_defaults(category_name))
                /\ category_status' =
                       CheckSettings(category_settings',
                                     category_settings_defaults(category_name))
    /\ UNCHANGED <<analysis_config, config_dict, analysis_keys, ds_dict, category_name,
                   self_config_dict, element_status>>
    /\ UNCHANGED notConfigVars

-----------------------------------------------------------------------------
(* Cache locations                                                         *)

Units == {"maps", "maps.JRA"}

SourceNames == {"JRA", "CORE", "JRA.0033"}

DateStrs == {"0033-0052", "0033"}

ClimoStates == {"no_climo", "mon_climo", "ann_climo"}

\* Both orchestrators write 'zarr' into every location they build.
Formats == {"zarr"}

CacheDir == "/scratch/cache"

\* climo_str of AnalysisElements._open_datasets: is_climo is a flag.
ElementsClimoStr(state) == IF state = "no_climo" THEN "no_climo" ELSE "climo"

\* "{}/{}.{}.{}.{}" and "{}/{}.{}.{}.json" of AnalysisElements._open_datasets.
ElementsLocations(cache_dir, config_key, data_source, climo_str, ext) ==
    [data |-> cache_dir \o "/" \o config_key \o "." \o data_source \o "."
                 \o climo_str \o "." \o ext,
     meta |-> cache_dir \o "/" \o config_key \o "." \o data_source \o "."
                 \o climo_str \o ".json"]

\* The same two formats in AnalysisCategory._open_datasets, which fills them
\* with the category name and the date string.
CategoryLocations(cache_dir, category, datestr, climo_str, ext) ==
    [data |-> cache_dir \o "/" \o category \o "." \o datestr \o "."
                 \o climo_str \o "." \o ext,
     meta |-> cache_dir \o "/" \o category \o "." \o datestr \o "."
                 \o climo_str \o ".json"]

CacheKeys == [unit : Units, source : SourceNames, datestr : DateStrs,
              state : ClimoStates, format : Formats]

NoLocations == [data |-> "", meta |-> ""]

\* Lines 50-64 of AnalysisElements._open_datasets, for both keys.
BuildElementsLocations ==
    /\ keys_built = "none"
    /\ loc_a' = ElementsLocations(CacheDir, key_a.unit, key_a.source,
                                  ElementsClimoStr(key_a.state), key_a.format)
    /\ loc_b' = ElementsLocations(CacheDir, key_b.unit, key_b.source,
                                  ElementsClimoStr(key_b.state), key_b.format)
    /\ keys_built' = "AnalysisElements"
    /\ UNCHANGED <<key_a, key_b>>
    /\ UNCHANGED notKeysVars

\* Lines 140-154 of AnalysisCategory._open_datasets, for both keys; every
\* element of the category is given the category's name.
BuildCategoryLocations ==
    /\ keys_built = "none"
    /\ loc_a' = CategoryLocations(CacheDir, category_name, key_a.datestr,
                                  key_a.state, key_a.format)
    /\ loc_b' = CategoryLocations(CacheDir, category_name, key_b.datestr,
                                  key_b.state, key_b.format)
    /\ keys_built' = "AnalysisCategory"
    /\ UNCHANGED <<key_a, key_b>>
    /\ UNCHANGED notKeysVars

-----------------------------------------------------------------------------
(* The cache directory and cache_dataset                                   *)

\* Largest number of cache_dataset calls in a behaviour.
MaxPuts == 2

\* A location nothing is stored at.
NoFile == [exists |-> FALSE]

\* The data sources of the unit whose cache is modelled, and their locations.
RunUnit == "maps"

RunSources == {"JRA", "CORE"}

\* A climo_str that does not depend on is_climo.
ClimoStrAlwaysNoClimo(is_climo) == "no_climo"

\* climo_str of AnalysisElements._open_datasets.
ClimoStr(is_climo) == IF is_climo THEN "climo" ELSE "no_climo"

RunLocations(is_climo) ==
    [data_source \in RunSources |->
        ElementsLocations(CacheDir, RunUnit, data_source, ClimoStr(is_climo), "zarr")]

DataLocations == {RunLocations(c)[d].data : c \in BOOLEAN, d \in RunSources}

MetaLocations == {RunLocations(c)[d].meta : c \in BOOLEAN, d \in RunSources}

\* _set_var_dict of CESMData (and of WOAData).
CESMVarDict ==
    [nitrate |-> "NO3", phosphate |-> "PO4", oxygen |-> "O2", silicate |-> "SiO3"]

\* The generic variable names in the order sort_keys=True writes them.
GenericNames == <<"nitrate", "oxygen", "phosphate", "silicate">>

\* json.dump(var_dict, sort_keys=True): the (key, value) pairs by key.
JsonDump(var_dict) ==
    LET keys == SelectSeq(GenericNames, LAMBDA k : k \in DOMAIN var_dict)
    IN  [i \in 1..Len(keys) |-> <<keys[i], var_dict[keys[i]]>>]

\* json.load: the dict of the pairs.
JsonLoad(text) ==
    [k \in {text[i][1] : i \in DOMAIN text} |->
        text[CHOOSE i \in DOMAIN text : text[i][1] = k][2]]

\* An rm that leaves the file where it is.
RemoveKeeps(file) == file

\* call(['rm', '-f', ...]) and call(['rm', '-fr', ...]) on an existing path.
Remove(file) == NoFile

\* open(cached_var_dict, "w") and json.dump: whatever was there is truncated.
WriteJson(var_dict, gen) ==
    [exists |-> TRUE, text |-> JsonDump(var_dict), gen |-> gen]

\* self.ds.attrs.update(dsattrs)
WithHistory(dataset) == [dataset EXCEPT !.history = "created by $USER"]

\* ds.to_zarr / ds.to_netcdf with compute=True.
WriteStore(dataset, gen) == [exists |-> TRUE, ds |-> dataset, gen |-> gen]

\* The years a data source's open_dataset section asks for.
DateRanges == {"0033-0052", "0053-0072"}

\* The dataset a caller holds when it calls cache_dataset: the monthly
\* climatology computed from the history files of a date range.
ComputedDataset(datestr) ==
    [content |-> "mon_climo", datestr |-> datestr, time_ok |-> TRUE,
     reductions |-> 1, history |-> ""]

\* The objects whose cache_dataset the orchestrators call: tagged neither
\* monthly nor annual climatology (_operate_on_datasets asks before it calls).
PutHandles ==
    [result : {"handle"},
     cls : {"CESMData"},
     var_dict : {CESMVarDict, [nitrate |-> "NO3"]},
     is_mon_climo : {FALSE},
     is_ann_climo : {FALSE},
     ds : {ComputedDataset(d) : d \in DateRanges}]

NoHandle == [result |-> "none"]

NotOpened == [result |-> "none"]

\* os.path.splitext(cached_location)[1] of the locations the orchestrators
\* build, which all end in '.zarr'.
Ext(location) == ".zarr"

\* A caller enters cache_dataset(cached_location, cached_var_dict).
CallCacheDataset ==
    /\ put_pc \in {"idle", "returned", "raised"}
    /\ puts < MaxPuts
    /\ \E h \in PutHandles : put_handle' = h
    /\ puts' = puts + 1
    /\ prev_record' = [json |-> json_files[put_loc.meta],
                       store |-> zarr_stores[put_loc.data]]
    /\ reopened' = NotOpened
    /\ put_pc' = "rm_var_dict"
    /\ UNCHANGED <<put_loc, last_stored>>
    /\ UNCHANGED fsVars
    /\ UNCHANGED notCacheVars

\* Lines 38-44: mkdir -p of the directory, rm -f of an existing .json file.
RemoveVarDict ==
    /\ put_pc = "rm_var_dict"
    /\ cache_dir_exists' = TRUE
    /\ json_files' = [json_files EXCEPT ![put_loc.meta] =
                         IF @.exists THEN Remove(@) ELSE @]
    /\ put_pc' = "write_var_dict"
    /\ UNCHANGED <<zarr_stores, put_handle, put_loc, puts, prev_record, last_stored,
                   reopened>>
    /\ UNCHANGED notCacheVars

\* Lines 38-44 when mkdir or rm ends with a non-zero status: call() returns
\* the status, which nothing reads, and the function goes on.
RemoveVarDictFails ==
    /\ put_pc = "rm_var_dict"
    /\ ~ cache_dir_exists \/ json_files[put_loc.meta].exists
    /\ put_pc' = "write_var_dict"
    /\ UNCHANGED <<put_handle, put_loc, puts, prev_record, last_stored, reopened>>
    /\ UNCHANGED fsVars
    /\ UNCHANGED notCacheVars

\* Lines 47-48: the variable dictionary is written as JSON; open() raises
\* when the directory is not there.
WriteVarDict ==
    /\ put_pc = "write_var_dict"
    /\ IF cache_dir_exists
           THEN /\ json_files' = [json_files EXCEPT ![put_loc.meta] =
                                    WriteJson(put_handle.var_dict, puts)]
                /\ put_pc' = "rm_location"
           ELSE /\ put_pc' = "raised"
                /\ UNCHANGED json_files
    /\ UNCHANGED <<cache_dir_exists, zarr_stores, put_handle, put_loc, puts,
                   prev_record, last_stored, reopened>>
    /\ UNCHANGED notCacheVars

\* Lines 50-56: mkdir -p again, rm -fr of an existing data payload.
RemoveLocation ==
    /\ put_pc = "rm_location"
    /\ zarr_stores' = [zarr_stores EXCEPT ![put_loc.data] =
                          IF @.exists THEN Remove(@) ELSE @]
    /\ put_pc' = "write_location"
    /\ UNCHANGED <<cache_dir_exists, json_files, put_handle, put_loc, puts,
                   prev_record, last_stored, reopened>>
    /\ UNCHANGED notCacheVars

\* Lines 50-56 when rm -fr ends with a non-zero status, which nothing
\* reads: the store stays and the function goes on.
RemoveLocationFails ==
    /\ put_pc = "rm_location"
    /\ zarr_stores[put_loc.data].exists
    /\ put_pc' = "write_location"
    /\ UNCHANGED <<put_handle, put_loc, puts, prev_record, last_stored, reopened>>
    /\ UNCHANGED fsVars
    /\ UNCHANGED notCacheVars

\* Lines 58-77: the history attribute is set on self.ds, then the dataset is
\* written if the extension is known, and a ValueError raised if not.
\* to_zarr creates the store (mode 'w-') and raises when one is there.
WriteLocation ==
    /\ put_pc = "write_location"
    /\ put_handle' = [put_handle EXCEPT !.ds = WithHistory(@)]
    /\ IF Ext(put_loc.data) = ".zarr" /\ zarr_stores[put_loc.data].exists
           THEN /\ put_pc' = "raised"
                /\ UNCHANGED <<zarr_stores, last_stored>>
       ELSE IF Ext(put_loc.data) \in {".nc", ".zarr"}
           THEN /\ zarr_stores' = [zarr_stores EXCEPT ![put_loc.data] =
                                     WriteStore(put_handle'.ds, puts)]
                /\ last_stored' = put_handle'
                /\ put_pc' = "returned"
           ELSE /\ put_pc' = "raised"
                /\ UNCHANGED <<zarr_stores, last_stored>>
    /\ UNCHANGED <<cache_dir_exists, json_files, put_loc, puts, prev_record, reopened>>
    /\ UNCHANGED notCacheVars

InCacheDataset ==
    put_pc \in {"rm_var_dict", "write_var_dict", "rm_location", "write_location"}

\* The process stops inside cache_dataset.
Crash ==
    /\ InCacheDataset
    /\ put_pc' = "crashed"
    /\ UNCHANGED <<put_handle, put_loc, puts, prev_record, last_stored, reopened>>
    /\ UNCHANGED fsVars
    /\ UNCHANGED notCacheVars

\* A later process starts with the cache directory as the crash left it.
Restart ==
    /\ put_pc = "crashed"
    /\ put_pc' = "idle"
    /\ put_handle' = NoHandle
    /\ UNCHANGED <<put_loc, puts, prev_record, last_stored, reopened>>
    /\ UNCHANGED fsVars
    /\ UNCHANGED notCacheVars

\* CachedClimoData(data_root, var_dict_in, data_type='zarr'): _set_var_dict
\* runs first and raises when the .json file is missing; _get_dataset sets
\* the two flags and opens the store.
CachedClimoData(store, json) ==
    IF ~ json.exists THEN [result |-> "FileNotFoundError"]
    ELSE [result |-> "handle",
          cls |-> "CachedClimoData",
          var_dict |-> JsonLoad(json.text),
          is_mon_climo |-> TRUE,
          is_ann_climo |-> FALSE,
          ds |-> store.ds]

\* The cache lookup of _open_datasets: os.path.exists(cached_location)
\* decides between the cached artifact and a fresh open.
Lookup(store, json) ==
    IF store.exists THEN CachedClimoData(store, json) ELSE [result |-> "miss"]

\* A caller looks the location up, between calls of cache_dataset.
OpenCached ==
    /\ put_pc \in {"idle", "returned", "raised"}
    /\ reopened = NotOpened
    /\ reopened' = Lookup(zarr_stores[put_loc.data], json_files[put_loc.meta])
    /\ UNCHANGED <<put_pc, put_handle, put_loc, puts, prev_record, last_stored>>
    /\ UNCHANGED fsVars
    /\ UNCHANGED notCacheVars

-----------------------------------------------------------------------------
(* The analysis unit: AnalysisElements and its data sources                *)

\* Largest number of times the unit is constructed over the same cache.
MaxRuns == 2

\* _config_dict['data_sources'] in the order the loops go through it.
RunOrder == <<"JRA", "CORE">>

\* The sections a data source may have: its 'source', the filetype or freq
\* of its open_dataset, whether the file patterns match files, and whether
\* the files hold a time axis compute_mon_climatology accepts.
SourceConfigs ==
    {[source |-> "cesm", filetype |-> ft, freq |-> "", files_found |-> TRUE,
      time_ok |-> TRUE, datestr |-> "0033-0052"] :
        ft \in {"hist", "single_variable", "mon_climo", "ann_climo"}}
    \cup
    {[source |-> "cesm", filetype |-> "hist", freq |-> "", files_found |-> FALSE,
      time_ok |-> TRUE, datestr |-> "0033-0052"],
     [source |-> "cesm", filetype |-> "mon_climo", freq |-> "", files_found |-> FALSE,
      time_ok |-> TRUE, datestr |-> "0033-0052"],
     [source |-> "cesm", filetype |-> "hist", freq |-> "", files_found |-> TRUE,
      time_ok |-> FALSE, datestr |-> "0033-0052"]}
    \cup
    {[source |-> "woa2013", filetype |-> "", freq |-> fr, files_found |-> TRUE,
      time_ok |-> TRUE, datestr |-> ""] : fr \in {"ann", "mon", "jfm"}}
    \cup
    {[source |-> "obs", filetype |-> "", freq |-> "", files_found |-> TRUE,
      time_ok |-> TRUE, datestr |-> ""]}

\* The lists of operations a unit may ask for.
OperationLists ==
    {<<"plot_state">>, <<"plot_mon_climo">>, <<"plot_ann_climo">>,
     <<"plot_mon_climo", "plot_ann_climo">>}

\* 'climo' in op, for the operations above.
ContainsClimo(op) == op \in {"plot_mon_climo", "plot_ann_climo", "plot_climo"}

\* is_climo as AnalysisElements.__init__ works it out.
IsClimo(ops) == \E i \in DOMAIN ops : ContainsClimo(ops[i])

\* The dataset an opener builds from the files of a section.
OpenedDataset(cfg, content) ==
    [content |-> content, datestr |-> cfg.datestr, time_ok |-> cfg.time_ok,
     reductions |-> 0, history |-> ""]

NewHandle(cls, is_mon, is_ann, dataset) ==
    [result |-> "handle", cls |-> cls, var_dict |-> CESMVarDict,
     is_mon_climo |-> is_mon, is_ann_climo |-> is_ann, ds |-> dataset]

\* _list_files: the sorted matches of the patterns, or the exception when
\* there are none.
ListFilesIgnoresEmpty(cfg) == "ok"

ListFiles(cfg) == IF cfg.files_found THEN "ok" ELSE "ValueError: No files"

\* CESMData(**section): _set_var_dict, then _get_dataset by filetype, with
\* _list_files raising when no file matches.
CESMData(cfg) ==
    IF cfg.filetype \notin {"hist", "mon_climo", "ann_climo", "single_variable"}
        THEN [result |-> "ValueError: Uknown format"]
    ELSE IF ListFiles(cfg) # "ok" THEN [result |-> ListFiles(cfg)]
    ELSE IF cfg.filetype = "mon_climo"
        THEN NewHandle("CESMData", TRUE, FALSE, OpenedDataset(cfg, "mon_climo"))
    ELSE IF cfg.filetype = "ann_climo"
        THEN NewHandle("CESMData", FALSE, TRUE, OpenedDataset(cfg, "ann_climo"))
    ELSE NewHandle("CESMData", FALSE, FALSE, OpenedDataset(cfg, "raw"))

\* WOAData(var_dict, **section): the frequency decides the two flags.
WOAData(cfg) ==
    IF cfg.freq = "ann"
        THEN NewHandle("WOAData", FALSE, TRUE, OpenedDataset(cfg, "ann_climo"))
    ELSE IF cfg.freq = "mon"
        THEN NewHandle("WOAData", TRUE, FALSE, OpenedDataset(cfg, "mon_climo"))
    ELSE [result |-> "ValueError: frequency must be 'ann' or 'mon'"]

\* A lookup whose last branch hands every other kind to CESMData.
OpenFreshDefaultsToCESM(cfg) ==
    IF cfg.source \in {"woa2005", "woa2013"} THEN WOAData(cfg) ELSE CESMData(cfg)

\* The else branch of the lookup in _open_datasets: the opener of the kind.
OpenFresh(cfg) ==
    IF cfg.source = "cesm" THEN CESMData(cfg)
    ELSE IF cfg.source \in {"woa2005", "woa2013"} THEN WOAData(cfg)
    ELSE [result |-> "ValueError: Unknown source"]

\* esmlab.climatology.compute_mon_climatology, by the repository's own
\* implementation of it: a raw dataset with its time bounds and a time axis
\* of whole years is reduced; a reduced one no longer has the time
\* attributes the computation reads.
EsmlabMonClimatology(dataset) ==
    IF dataset.content # "raw" THEN [result |-> "KeyError: 'calendar'"]
    ELSE IF ~ dataset.time_ok
        THEN [result |-> "ValueError: Time axis not evenly divisible by 12!"]
    ELSE [result |-> "ok",
          ds |-> [dataset EXCEPT !.content = "mon_climo", !.reductions = @ + 1]]

\* A compute_mon_climatology that swallows the exception of esmlab.
GenericDataSource_compute_swallows(h) ==
    LET computed == EsmlabMonClimatology(h.ds)
    IN  IF computed.result = "ok" THEN [h EXCEPT !.ds = computed.ds] ELSE h

\* GenericDataSource.compute_mon_climatology: self.ds is replaced by what
\* esmlab returns, and nothing else of the object is touched.
GenericDataSource_compute_mon_climatology(h) ==
    LET computed == EsmlabMonClimatology(h.ds)
    IN  IF computed.result = "ok"
            THEN [h EXCEPT !.ds = computed.ds]
            ELSE [result |-> computed.result]

\* compute_mon_climatology of the three classes.
ComputeMonClimatology(h) ==
    IF h.cls \in {"CachedClimoData", "WOAData"} THEN h
    ELSE IF h.is_mon_climo \/ h.is_ann_climo THEN h
    ELSE GenericDataSource_compute_mon_climatology(h)

\* ops_list of _open_datasets: one compute_mon_climatology per plot_*_climo.
OpsList(ops) ==
    LET Listed(op) == op \in {"plot_mon_climo", "plot_ann_climo"}
    IN  [i \in 1..Len(SelectSeq(ops, Listed)) |-> "compute_mon_climatology"]

\* A persist condition that does not ask for the flags.
ShouldCacheUntagged(caching, op, h) ==
    caching /\ op = "compute_mon_climatology"

\* A persist condition that lost its 'not'.
ShouldCacheTagged(caching, op, h) ==
    /\ caching
    /\ op = "compute_mon_climatology"
    /\ (h.is_mon_climo \/ h.is_ann_climo)

\* A persist condition that does not ask whether caching is enabled.
ShouldCacheWhenDisabled(caching, op, h) ==
    /\ op = "compute_mon_climatology"
    /\ ~ (h.is_mon_climo \/ h.is_ann_climo)

\* The 'write to cache' condition of _operate_on_datasets.
ShouldCache(caching, op, h) ==
    /\ caching
    /\ op = "compute_mon_climatology"
    /\ ~ (h.is_mon_climo \/ h.is_ann_climo)

\* The construction is ended by an exception.
Raise(error) ==
    /\ run_pc' = "raised"
    /\ run_error' = error

\* A lookup that never finds the record.
IsCachedNever(caching, store) == FALSE

\* Lines 65-66: with cache_data on, os.path.exists(cached_location) decides
\* whether the data source is read from the cache.
IsCached(caching, store) == caching /\ store.exists

\* One pass of the loop of _open_datasets (lines 48-85), and after the last
\* data source lines 88-95.
OpenDataset ==
    /\ run_pc = "open"
    /\ LET data_source == RunOrder[cur_source]
           loc == RunLocations(IsClimo(operations))[data_source]
           store == zarr_stores[loc.data]
           json == json_files[loc.meta]
           opened == IF IsCached(cache_data, store)
                         THEN CachedClimoData(store, json)
                         ELSE OpenFresh(source_configs[data_source])
       IN  IF ~ cache_dir_set
               THEN /\ Raise("KeyError: 'cache_dir'")
                    /\ UNCHANGED <<data_sources, cur_source, ops_list, lookup_found>>
               ELSE /\ lookup_found' = [lookup_found EXCEPT ![data_source] =
                                           [store |-> store.exists, json |-> json.exists]]
                    /\ IF opened.result # "handle"
                           THEN /\ Raise(opened.result)
                                /\ UNCHANGED <<data_sources, cur_source, ops_list>>
                           ELSE /\ data_sources' =
                                       [data_sources EXCEPT ![data_source] = opened]
                                /\ UNCHANGED run_error
                                /\ IF cur_source < Len(RunOrder)
                                       THEN /\ cur_source' = cur_source + 1
                                            /\ UNCHANGED <<run_pc, ops_list>>
                                       ELSE /\ cur_source' = 1
                                            /\ ops_list' = OpsList(operations)
                                            /\ run_pc' = IF ops_list' # <<>>
                                                            THEN "operate"
                                                            ELSE "constructed"
    /\ UNCHANGED <<cache_data, cache_dir_set, operations, source_configs, cur_op,
                   compute_calls, runs>>
    /\ UNCHANGED <<fsVars, putVars, notRunVars>>

\* The loops of _operate_on_datasets move on.
Advance ==
    IF cur_op < Len(ops_list)
        THEN /\ cur_op' = cur_op + 1
             /\ run_pc' = "operate"
             /\ UNCHANGED cur_source
    ELSE IF cur_source < Len(RunOrder)
        THEN /\ cur_op' = 1
             /\ cur_source' = cur_source + 1
             /\ run_pc' = "operate"
    ELSE /\ run_pc' = "constructed"
         /\ UNCHANGED <<cur_source, cur_op>>

\* One pass of the inner loop of _operate_on_datasets up to the call of
\* cache_dataset: func() runs, then the write to the cache is decided.
Operate ==
    /\ run_pc = "operate"
    /\ LET data_source == RunOrder[cur_source]
           op == ops_list[cur_op]
           computed == ComputeMonClimatology(data_sources[data_source])
       IN  /\ compute_calls' = [compute_calls EXCEPT ![data_source] = @ + 1]
           /\ IF computed.result # "handle"
                  THEN /\ Raise(computed.result)
                       /\ UNCHANGED <<data_sources, cur_source, cur_op, putVars>>
                  ELSE /\ data_sources' = [data_sources EXCEPT ![data_source] = computed]
                       /\ UNCHANGED run_error
                       /\ IF ShouldCache(cache_data, op, computed)
                              THEN /\ run_pc' = "caching"
                                   /\ put_pc' = "rm_var_dict"
                                   /\ put_handle' = computed
                                   /\ put_loc' =
                                          RunLocations(IsClimo(operations))[data_source]
                                   /\ puts' = puts + 1
                                   /\ prev_record' =
                                          [json |-> json_files[put_loc'.meta],
                                           store |-> zarr_stores[put_loc'.data]]
                                   /\ UNCHANGED <<cur_source, cur_op, last_stored,
                                                  reopened>>
                              ELSE /\ Advance
                                   /\ UNCHANGED putVars
    /\ UNCHANGED <<cache_data, cache_dir_set, operations, source_configs, ops_list,
                   lookup_found, runs>>
    /\ UNCHANGED <<fsVars, notRunVars>>

\* cache_dataset has ended and the inner loop goes on with the object as
\* cache_dataset left it.
CacheReturned ==
    /\ run_pc = "caching"
    /\ put_pc \in {"returned", "raised"}
    /\ IF put_pc = "returned"
           THEN /\ data_sources' =
                       [data_sources EXCEPT ![RunOrder[cur_source]] = put_handle]
                /\ Advance
                /\ UNCHANGED run_error
           ELSE /\ Raise("ValueError: Unknown output file extension")
                /\ UNCHANGED <<data_sources, cur_source, cur_op>>
    /\ UNCHANGED <<cache_data, cache_dir_set, operations, source_configs, ops_list,
                   lookup_found, compute_calls, runs>>
    /\ UNCHANGED <<fsVars, putVars, notRunVars>>

RunEnded == run_pc \in {"constructed", "raised", "analysed"}

\* An analysis loop that does not wait for the units to be constructed.
ReadyWhileOperating(pc) == pc \in {"operate", "constructed"}

\* The driver's second loop starts when the loop constructing the units has
\* ended.
ReadyForAnalysis(pc) == pc = "constructed"

\* The driver calls do_analysis of the unit (the operations themselves are
\* the actions of SpecPlot).
DoAnalysis ==
    /\ ReadyForAnalysis(run_pc)
    /\ run_pc' = "analysed"
    /\ UNCHANGED <<cache_data, cache_dir_set, operations, source_configs, data_sources,
                   run_error, cur_source, cur_op, ops_list, lookup_found, compute_calls,
                   runs>>
    /\ UNCHANGED <<fsVars, putVars, notRunVars>>

\* The driver is started again over the same cache directory; the unit may
\* now ask for other operations.
NewRun ==
    /\ RunEnded
    /\ runs < MaxRuns
    /\ runs' = runs + 1
    /\ run_pc' = "open"
    /\ run_error' = ""
    /\ cur_source' = 1
    /\ cur_op' = 1
    /\ ops_list' = <<>>
    /\ data_sources' = [d \in RunSources |-> NoHandle]
    /\ lookup_found' = [d \in RunSources |-> [store |-> FALSE, json |-> FALSE]]
    /\ compute_calls' = [d \in RunSources |-> 0]
    /\ put_pc' = "idle"
    /\ put_handle' = NoHandle
    /\ UNCHANGED <<put_loc, puts, prev_record, last_stored, reopened>>
    /\ operations' \in OperationLists
    /\ UNCHANGED <<cache_data, cache_dir_set, source_configs>>
    /\ UNCHANGED <<fsVars, notRunVars>>

\* Between two runs somebody deletes the .json file of a cached record.
DeleteJson ==
    /\ RunEnded
    /\ runs < MaxRuns
    /\ \E l \in MetaLocations :
          /\ json_files[l].exists
          /\ json_files' = [json_files EXCEPT ![l] = NoFile]
    /\ UNCHANGED <<cache_dir_exists, zarr_stores>>
    /\ UNCHANGED <<putVars, runVars, notRunVars>>

-----------------------------------------------------------------------------
(* compute_mon_climatology on a dataset held in memory                     *)

\* Largest number of whole years of monthly time steps in a dataset.
MaxYears == 2

\* First day of each month of the noleap calendar, counted from the start of
\* the year, and the first day of the next year.
MonthStarts == <<0, 31, 59, 90, 120, 151, 181, 212, 243, 273, 304, 334, 365>>

DaysInYear == MonthStarts[13]

\* start_date and end_date of the k-th month (k = 0 is January of year 1).
StartDate(k) == DaysInYear * (k \div 12) + MonthStarts[(k % 12) + 1]

EndDate(k) == DaysInYear * (k \div 12) + MonthStarts[(k % 12) + 2]

\* The values of the time-varying variable of a dataset.
ValuePatterns == {"zeros_then_ones", "index"}

VarToAverage(pattern, nsteps) ==
    [i \in 1..nsteps |->
        IF pattern = "index" THEN i ELSE IF i <= 12 THEN 0 ELSE 1]

\* The names a file may give its time bounds variable.
BoundNames == {"time_bound", "time_bnds"}

\* create_data_set, for nsteps consecutive months from month first (0 is
\* January): time holds end_date, time_bound the pairs (start_date,
\* end_date). bounds_attr is the value of the time attribute 'bounds' ("" if
\* the attribute is missing), bound_vars the names under which the dataset
\* holds the pairs.
CreateDataSet(first, nsteps, pattern, bounds_attr, bound_vars) ==
    [time |-> [i \in 1..nsteps |-> [num |-> EndDate(first + i - 1)]],
     time_attrs |-> IF bounds_attr # "" THEN {"units", "calendar", "bounds"}
                                        ELSE {"units", "calendar"},
     bounds |-> bounds_attr,
     bound_vars |-> bound_vars,
     time_bound |-> [i \in 1..nsteps |->
                        <<StartDate(first + i - 1), EndDate(first + i - 1)>>],
     var_to_average |-> VarToAverage(pattern, nsteps),
     lat |-> first + nsteps]

\* _time_bound_var: the name of the time bounds variable, or an error.
TimeBoundVarPrefersDefault(dataset) ==
    IF "time_bound" \in dataset.bound_vars THEN "time_bound"
    ELSE IF "bounds" \in dataset.time_attrs
        THEN IF dataset.bounds \in dataset.bound_vars
                 THEN dataset.bounds ELSE "KeyError: time bounds"
    ELSE "ValueError: No time_bound variable found"

TimeBoundVar(dataset) ==
    IF "bounds" \in dataset.time_attrs
        THEN IF dataset.bounds \in dataset.bound_vars
                 THEN dataset.bounds ELSE "KeyError: time bounds"
    ELSE IF "time_bound" \in dataset.bound_vars THEN "time_bound"
    ELSE "ValueError: No time_bound variable found"

\* The lookup of CESMData._get_dataset, which goes on with '' when it finds
\* no name.
GetDatasetTimeBound(dataset) ==
    IF "bounds" \in dataset.time_attrs THEN dataset.bounds
    ELSE IF "time_bound" \in dataset.bound_vars THEN "time_bound"
    ELSE ""

\* Twice the end of the interval, where twice the mean belongs.
TimeBoundEnd(bound) == 2 * bound[2]

\* self.ds[tb_name].mean(tb_dim) of one time step, doubled to stay integral.
TimeBoundMean(bound) == bound[1] + bound[2]

\* The month of the noleap calendar a day of the year lies in.
MonthOfDay(doy) ==
    CHOOSE m \in 1..12 : MonthStarts[m] <= doy /\ doy < MonthStarts[m + 1]

\* cftime.num2date(days, units='days since 0001-01-01', calendar='noleap'),
\* for a doubled number of days.
Num2Date(twice_days) ==
    LET days == twice_days \div 2
        doy == days % DaysInYear
    IN  [year |-> (days \div DaysInYear) + 1,
         month |-> MonthOfDay(doy),
         day |-> doy - MonthStarts[MonthOfDay(doy)] + 1,
         hour |-> 12 * (twice_days % 2)]

RECURSIVE SumOver(_, _)
SumOver(f, S) ==
    IF S = {} THEN 0
    ELSE LET x == CHOOSE y \in S : TRUE
         IN  f[x] + SumOver(f, S \ {x})

\* mean('time') of one group of time steps: the sum and the count.
MeanOver(f, S) == [sum |-> SumOver(f, S), n |-> Cardinality(S)]

\* A check that lets through every time axis of at least a year.
TimeAxisShorterThanYear(date) == Len(date) < 12

\* len(date)%12 != 0
TimeAxisRejected(date) == Len(date) % 12 # 0

\* groupby('time.month').mean('time').rename({'month':'time'}) on the
\* variables with a time dimension, merged with the grid variables, with
\* the attributes put back.
GroupByMonthMean(dataset) ==
    LET steps == DOMAIN dataset.time
        Group(m) == {i \in steps : dataset.time[i].month = m}
        Present(m) == Group(m) # {}
        months == SelectSeq([m \in 1..12 |-> m], Present)
        starts == [i \in steps |-> dataset.time_bound[i][1]]
        ends == [i \in steps |-> dataset.time_bound[i][2]]
    IN  [time |-> [p \in DOMAIN months |-> [month |-> months[p]]],
         time_attrs |-> {"long_name", "units"},
         bounds |-> dataset.bounds,
         bound_vars |-> dataset.bound_vars,
         time_bound |-> [p \in DOMAIN months |->
                            <<MeanOver(starts, Group(months[p])),
                              MeanOver(ends, Group(months[p]))>>],
         var_to_average |-> [p \in DOMAIN months |->
                                MeanOver(dataset.var_to_average, Group(months[p]))],
         lat |-> dataset.lat]

\* CESMData._get_dataset on the files of a 'hist' source: of the variables
\* with a time dimension it keeps time, the one the lookup named, and the
\* ones of _var_dict, which var_to_average stands for.
GetDataset ==
    /\ climo_pc = "files"
    /\ tb_name' = GetDatasetTimeBound(ds)
    /\ ds' = [ds EXCEPT !.bound_vars = @ \cap {GetDatasetTimeBound(ds)}]
    /\ ds_created' = ds'
    /\ climo_pc' = "created"
    /\ climo_error' = ""
    /\ UNCHANGED first_month
    /\ UNCHANGED notClimoVars

\* GenericCollection.compute_mon_climatology (BaseDataSource's is the same).
ComputeMonClimatologyStep ==
    /\ climo_pc = "created"
    /\ LET found == TimeBoundVar(ds)
           date == [i \in DOMAIN ds.time |-> Num2Date(TimeBoundMean(ds.time_bound[i]))]
           dated == [ds EXCEPT !.time = date]
       IN  IF found \notin BoundNames
               THEN /\ climo_pc' = "raised"
                    /\ climo_error' = found
                    /\ UNCHANGED ds
           ELSE IF TimeAxisRejected(date)
               THEN /\ climo_pc' = "raised"
                    /\ climo_error' = "ValueError: Time axis not evenly divisible by 12!"
                    /\ ds' = dated
           ELSE /\ climo_pc' = "computed"
                /\ climo_error' = ""
                /\ ds' = GroupByMonthMean(dated)
    /\ tb_name' = IF TimeBoundVar(ds) \in BoundNames THEN TimeBoundVar(ds) ELSE tb_name
    /\ UNCHANGED <<first_month, ds_created>>
    /\ UNCHANGED notClimoVars

\* A second call on the object the first call left.
ComputeMonClimatologyAgain ==
    /\ climo_pc = "computed"
    /\ climo_pc' = "raised_again"
    /\ climo_error' = IF TimeBoundVar(ds) \notin BoundNames THEN TimeBoundVar(ds)
                      ELSE "KeyError: 'calendar'"
    /\ tb_name' = IF TimeBoundVar(ds) \in BoundNames THEN TimeBoundVar(ds) ELSE tb_name
    /\ UNCHANGED <<ds, first_month, ds_created>>
    /\ UNCHANGED notClimoVars

-----------------------------------------------------------------------------
(* AnalysisElements.__init__ and the operations of analysis_ops            *)

\* AnalysisElement.sources, in the order the loops go through them.
PlotSources == <<"JRA", "WOA">>

PlotSourceSet == {PlotSources[i] : i \in DOMAIN PlotSources}

\* The lists of operations a configuration may ask for.
ElementsOperationLists ==
    {<<"plot_state">>, <<"plot_ann_climo">>, <<"plot_mon_climo">>,
     <<"plot_ann_climo", "plot_mon_climo">>, <<"plot_state", "plot_mon_climo">>,
     <<"plot_climo">>, <<"plot_mon_climo", "plot_climo">>}

\* The climo_time_periods a configuration may supply.
SuppliedTimePeriods ==
    {<<"DJF">>, <<"SON", "JJA", "MAM", "DJF", "ANN">>, <<"ANN", "JFM">>}

\* config_dict as AnalysisElements.__init__ receives it.
ElementsConfigs ==
    {[operations |-> ops] : ops \in ElementsOperationLists}
    \cup {[operations |-> ops, climo_time_periods |-> periods] :
             ops \in ElementsOperationLists, periods \in SuppliedTimePeriods}

\* 'ann_climo' in op and 'mon_climo' in op, for the operations above.
ContainsAnnClimo(op) == op = "plot_ann_climo"

ContainsMonClimo(op) == op = "plot_mon_climo"

\* The loop of AnalysisElements.__init__: it looks at the first operation
\* with 'climo' in its name and leaves the loop.
AnalysisElementsInit(cfg) ==
    LET ops == cfg.operations
        climo_ops == {i \in DOMAIN ops : ContainsClimo(ops[i])}
        op == ops[CHOOSE i \in climo_ops : \A j \in climo_ops : i <= j]
    IN  IF climo_ops = {}
            THEN [is_climo |-> FALSE, config_dict |-> cfg, error |-> ""]
        ELSE IF "climo_time_periods" \in DOMAIN cfg
            THEN [is_climo |-> TRUE, config_dict |-> cfg, error |-> ""]
        ELSE IF ContainsAnnClimo(op)
            THEN [is_climo |-> TRUE,
                  config_dict |-> [operations |-> ops, climo_time_periods |-> <<"ANN">>],
                  error |-> ""]
        ELSE IF ContainsMonClimo(op)
            THEN [is_climo |-> TRUE,
                  config_dict |-> [operations |-> ops,
                                   climo_time_periods |->
                                       <<"ANN", "DJF", "MAM", "JJA", "SON">>],
                  error |-> ""]
        ELSE [is_climo |-> TRUE, config_dict |-> cfg,
              error |-> "ValueError: not a valid operation"]

\* The values ds[var_name] holds at one level, time step by time step
\* (from 0).
FieldPatterns == {"index", "powers"}

FieldValues(pattern, ntime) ==
    [i \in 0..(ntime - 1) |-> IF pattern = "index" THEN i ELSE 2^i]

\* dims['time'] a data source may have.
TimeDims == {1, 12, 24}

\* The roles a data source may be given.
Roles == {"reference", "test"}

\* The grids, references, formats and keep_figs a configuration may hold.
GlobalConfigs ==
    [grid : {"POP_gx1v7", "None"}, reference : {"None", "JRA", "OBS"},
     plot_format : {"png", "None"}, keep_figs : BOOLEAN]

\* valid_time_dims[ds_name] with the winter of one calendar year.
MonClimoTimeDimsNoWrap(ds_name) ==
    [ANN |-> 0..11, DJF |-> {0, 1, 2}, MAM |-> 2..4, JJA |-> 5..7, SON |-> 8..10]

\* valid_time_dims[ds_name] as plot_mon_climo sets it up.
MonClimoTimeDims(ds_name) ==
    [ANN |-> 0..11, DJF |-> {11, 0, 1}, MAM |-> 2..4, JJA |-> 5..7, SON |-> 8..10]

\* valid_time_dims[ds_name] taking every window for the whole time axis.
AnnClimoTimeDimsAllWindows(ntime) ==
    [ANN |-> 0..(ntime - 1), DJF |-> 0..(ntime - 1), MAM |-> 0..(ntime - 1),
     JJA |-> 0..(ntime - 1), SON |-> 0..(ntime - 1)]

\* valid_time_dims[ds_name] as plot_ann_climo sets it up.
AnnClimoTimeDims(ntime) == [ANN |-> 0..(ntime - 1)]

\* The first data source whose time dimension the operation turns down.
TimeDimError(datasets, allowed, message) ==
    IF \E i \in DOMAIN PlotSources : datasets[PlotSources[i]].ntime \notin allowed
        THEN message
        ELSE ""

\* data_source_name_list: the reference first, then the others in order.
NameList(ref) ==
    LET Other(name) == name # ref
    IN  IF ref = "None" THEN PlotSources ELSE <<ref>> \o SelectSeq(PlotSources, Other)

\* 'identify reference' of _plot_climo: the source that _global_config
\* names, when it is one of AnalysisElement.sources.
ReferenceName(reference) ==
    IF Truthy(reference) /\ reference \in PlotSourceSet THEN reference ELSE "None"

\* An 'identify reference' loop that keeps the last reference it meets.
IdentifyReferenceLast(datasets) ==
    LET refs == {i \in DOMAIN PlotSources : datasets[PlotSources[i]].role = "reference"}
    IN  IF refs = {} THEN [ref |-> "None", error |-> ""]
        ELSE [ref |-> PlotSources[CHOOSE i \in refs : \A j \in refs : j <= i],
              error |-> ""]

\* 'identify reference' of plot_state: the loop raises at the second
\* collection whose role is 'reference'.
IdentifyReference(datasets) ==
    LET refs == {i \in DOMAIN PlotSources : datasets[PlotSources[i]].role = "reference"}
    IN  IF Cardinality(refs) >= 2
            THEN [ref |-> "None",
                  error |-> "ValueError: More that one reference dataset specified"]
        ELSE IF refs = {} THEN [ref |-> "None", error |-> ""]
        ELSE [ref |-> PlotSources[CHOOSE i \in refs : TRUE], error |-> ""]

\* The unit's attribute fig: whether it is still there, and its keys.
NoFigs == [exists |-> TRUE, names |-> {}]

\* An operation that raised before it reached a figure.
RaisedEarly(error, fig_now) ==
    [error |-> error, ref |-> "None", figures |-> <<>>, fig |-> fig_now]

\* Whether a time period is one of valid_time_dims[ds_name].
KnownTimePeriod(time_period, dims) == time_period \in DOMAIN dims

\* _plot_climo for one variable at one level, plot_diff_from_reference off:
\* one figure for each time period, in the order of climo_time_periods, each
\* with one panel for each name of data_source_name_list that holds the
\* variable (the others are skipped), the panel holding the mean over the
\* time steps of valid_time_dims; a time period the data source does not
\* have raises KeyError once its figure is created. When no data source
\* holds the variable the colorbar of the first figure reads cf unassigned.
\* A figure is saved when plot_format is set. Without keep_figs the
\* figures and, at the end, the attribute fig are deleted.
PlotClimo(global, periods, datasets, pattern, valid_time_dims, fig_now) ==
    LET ref == ReferenceName(global.reference)
        Holds(ds_name) == datasets[ds_name].has_var
        name_list == SelectSeq(NameList(ref), Holds)
        Known(p) == \A i \in DOMAIN name_list :
                        KnownTimePeriod(p, valid_time_dims[name_list[i]])
        bad == {k \in DOMAIN periods : ~ Known(periods[k])}
        last == IF bad = {} THEN Len(periods)
                ELSE CHOOSE k \in bad : \A j \in bad : k <= j
        Panel(ds_name, p) ==
            [title |-> ds_name,
             field |-> MeanOver(FieldValues(pattern, datasets[ds_name].ntime),
                                valid_time_dims[ds_name][p])]
        Figure(k) ==
            [name   |-> periods[k],
             panels |-> IF k \in bad THEN <<>>
                        ELSE [i \in DOMAIN name_list |-> Panel(name_list[i], periods[k])],
             saved  |-> k \notin bad /\ Truthy(global.plot_format)]
        made == {periods[k] : k \in 1..last}
    IN  IF global.grid # "POP_gx1v7"
            THEN RaisedEarly("ValueError: unknown grid", fig_now)
        ELSE IF ~ fig_now.exists
            THEN [error   |-> "AttributeError: object has no attribute 'fig'",
                  ref     |-> ref,
                  figures |-> <<[name |-> periods[1], panels |-> <<>>, saved |-> FALSE]>>,
                  fig     |-> fig_now]
        ELSE IF name_list = <<>>
            THEN [error   |-> "UnboundLocalError: local variable 'cf' referenced before assignment",
                  ref     |-> ref,
                  figures |-> <<[name |-> periods[1], panels |-> <<>>, saved |-> FALSE]>>,
                  fig     |-> [exists |-> TRUE, names |-> fig_now.names \cup {periods[1]}]]
        ELSE [error   |-> IF bad = {} THEN "" ELSE "KeyError: not a known time period",
              ref     |-> ref,
              figures |-> [k \in 1..last |-> Figure(k)],
              fig     |-> IF global.keep_figs
                              THEN [exists |-> TRUE, names |-> fig_now.names \cup made]
                          ELSE IF bad # {}
                              THEN [exists |-> TRUE,
                                    names |-> fig_now.names \cup {periods[last]}]
                          ELSE [exists |-> FALSE, names |-> {}]]

\* analysis_ops.plot_mon_climo
PlotMonClimo(global, periods, datasets, pattern, fig_now) ==
    LET error == TimeDimError(datasets, {12},
                              "ValueError: Dataset must have time dimension of 12")
    IN  IF error # "" THEN RaisedEarly(error, fig_now)
        ELSE PlotClimo(global, periods, datasets, pattern,
                       [ds_name \in PlotSourceSet |-> MonClimoTimeDims(ds_name)],
                       fig_now)

\* analysis_ops.plot_ann_climo
PlotAnnClimo(global, periods, datasets, pattern, fig_now) ==
    LET error == TimeDimError(datasets, {1, 12},
                              "ValueError: Dataset must have time dimension of 1 or 12")
    IN  IF error # "" THEN RaisedEarly(error, fig_now)
        ELSE PlotClimo(global, periods, datasets, pattern,
                       [ds_name \in PlotSourceSet |->
                           AnnClimoTimeDims(datasets[ds_name].ntime)],
                       fig_now)

\* plot_state of the earlier analysis_ops, for one variable at one level:
\* one figure, saved, with a panel for each collection holding time step 0;
\* the first collection without the variable raises KeyError with the
\* figure created.
PlotState(global, datasets, pattern, fig_now) ==
    LET found == IdentifyReference(datasets)
        name_list == NameList(found.ref)
        missing == {i \in DOMAIN name_list : ~ datasets[name_list[i]].has_var}
        first_missing == CHOOSE i \in missing : \A j \in missing : i <= j
        Panel(ds_name) ==
            [title |-> ds_name,
             field |-> MeanOver(FieldValues(pattern, datasets[ds_name].ntime), {0})]
    IN  IF global.grid # "POP_gx1v7"
            THEN RaisedEarly("ValueError: unknown grid", fig_now)
        ELSE IF found.error # "" THEN RaisedEarly(found.error, fig_now)
        ELSE IF missing # {}
            THEN [error   |-> "KeyError: Can not find variable",
                  ref     |-> found.ref,
                  figures |-> <<[name |-> "state",
                                 panels |-> [i \in 1..(first_missing - 1) |->
                                                Panel(name_list[i])],
                                 saved |-> FALSE]>>,
                  fig     |-> fig_now]
        ELSE [error   |-> "",
              ref     |-> found.ref,
              figures |-> <<[name |-> "state",
                             panels |-> [i \in DOMAIN name_list |-> Panel(name_list[i])],
                             saved |-> TRUE]>>,
              fig     |-> fig_now]

\* AnalysisElements.__init__ up to the call of the parent's __init__.
AnalysisElements_init ==
    /\ elements_pc = "new"
    /\ LET r == AnalysisElementsInit(elements_config_dict)
       IN  /\ elements_is_climo' = r.is_climo
           /\ elements_config_dict' = r.config_dict
           /\ elements_error' = r.error
           /\ elements_pc' = IF r.error = "" THEN "analysis" ELSE "raised"
    /\ UNCHANGED <<global_config, plot_datasets, field_pattern, cur_operation,
                   ref_name, figures, fig>>
    /\ UNCHANGED notPlotVars

\* The operation do_analysis is about to call.
CurrentOperation == elements_config_dict.operations[cur_operation]

\* One pass of the loop of do_analysis has called op, with outcome r.
OperationEnds(op, r) ==
    /\ figures' = figures \o [k \in DOMAIN r.figures |->
                                 [op |-> op, name |-> r.figures[k].name,
                                  panels |-> r.figures[k].panels,
                                  saved |-> r.figures[k].saved]]
    /\ fig' = r.fig
    /\ ref_name' = r.ref
    /\ elements_error' = r.error
    /\ IF r.error # ""
           THEN /\ elements_pc' = "raised"
                /\ UNCHANGED cur_operation
       ELSE IF cur_operation < Len(elements_config_dict.operations)
           THEN /\ cur_operation' = cur_operation + 1
                /\ UNCHANGED elements_pc
       ELSE /\ elements_pc' = "done"
            /\ UNCHANGED cur_operation
    /\ UNCHANGED <<elements_config_dict, elements_is_climo, global_config, plot_datasets,
                   field_pattern>>
    /\ UNCHANGED notPlotVars

plot_mon_climo ==
    /\ elements_pc = "analysis"
    /\ CurrentOperation = "plot_mon_climo"
    /\ OperationEnds("plot_mon_climo",
                     PlotMonClimo(global_config, elements_config_dict.climo_time_periods,
                                  plot_datasets, field_pattern, fig))

plot_ann_climo ==
    /\ elements_pc = "analysis"
    /\ CurrentOperation = "plot_ann_climo"
    /\ OperationEnds("plot_ann_climo",
                     PlotAnnClimo(global_config, elements_config_dict.climo_time_periods,
                                  plot_datasets, field_pattern, fig))

plot_state ==
    /\ elements_pc = "analysis"
    /\ CurrentOperation = "plot_state"
    /\ OperationEnds("plot_state",
                     PlotState(global_config, plot_datasets, field_pattern, fig))

\* getattr(analysis_ops, op) for a name the module does not define.
MissingOperation ==
    /\ elements_pc = "analysis"
    /\ CurrentOperation \notin {"plot_mon_climo", "plot_ann_climo", "plot_state"}
    /\ OperationEnds(CurrentOperation,
                     RaisedEarly("AttributeError: module has no attribute", fig))

-----------------------------------------------------------------------------
(* AnalysisCategory._open_datasets and AnalysisElement._operate_on_datasets *)

\* AnalysisElement.datestrs: the data sources of the element, in the order
\* of the loop, each with one date string.
CategoryOrder == <<"JRA", "CORE">>

CategoryDatestrs == [JRA |-> "0033-0052", CORE |-> "0033"]

\* data_source_label: data_source + '.' + datestr.
DataSourceLabel(data_source) == data_source \o "." \o CategoryDatestrs[data_source]

CategoryLabels == {DataSourceLabel(CategoryOrder[i]) : i \in DOMAIN CategoryOrder}

\* self.operation of a category, and an operation without 'climo' in its
\* name.
CategoryOperations == {"plot_ann_climo", "plot_mon_climo", "plot_state"}

\* AnalysisElement.climo, and from it climo_str.
CategoryClimoStr(operation) ==
    IF operation = "plot_ann_climo" THEN "ann_climo"
    ELSE IF operation = "plot_mon_climo" THEN "mon_climo"
    ELSE "no_climo"

\* What an earlier run left at a location that holds something.
CachedStore(cfg) ==
    [exists |-> TRUE, ds |-> OpenedDataset(cfg, "mon_climo"), gen |-> 1]

CachedJson == [exists |-> TRUE, text |-> JsonDump(CESMVarDict), gen |-> 1]

\* Lines 138-139 and 144, 150: the dict is made anew and given the entry of
\* this data source.
RegistryEntry(registry, label, location) == [l \in {label} |-> location]

CategoryRaise(error) ==
    /\ category_pc' = "raised"
    /\ category_error' = error

\* One pass of the loop of AnalysisCategory._open_datasets (lines 135-174),
\* and after the last data source the step to _operate_on_datasets.
CategoryOpenDataset ==
    /\ category_pc = "open"
    /\ LET data_source == CategoryOrder[category_cur]
           label == DataSourceLabel(data_source)
           cfg == category_ds_dict[data_source]
           loc == CategoryLocations(CacheDir, "3d_ann_climo_maps_on_levels",
                                    CategoryDatestrs[data_source],
                                    CategoryClimoStr(category_operation), "zarr")
           found == category_found[data_source]
           opened ==
               IF category_cache_data
                   THEN IF found.store
                            THEN CachedClimoData(CachedStore(cfg),
                                                 IF found.json THEN CachedJson ELSE NoFile)
                            ELSE [result |-> "none"]
                   ELSE OpenFresh(cfg)
       IN  /\ IF category_cache_data
                  THEN /\ cached_locations' =
                              RegistryEntry(cached_locations, label, loc.data)
                       /\ cached_var_dicts' =
                              RegistryEntry(cached_var_dicts, label, loc.meta)
                  ELSE UNCHANGED <<cached_locations, cached_var_dicts>>
           /\ IF opened.result = "none"
                  THEN /\ CategoryRaise("KeyError: data_source_label")
                       /\ UNCHANGED <<element_data_sources, category_cur>>
              ELSE IF opened.result # "handle"
                  THEN /\ CategoryRaise(opened.result)
                       /\ UNCHANGED <<element_data_sources, category_cur>>
              ELSE /\ element_data_sources' =
                          [l \in DOMAIN element_data_sources \cup {label} |->
                              IF l = label THEN opened ELSE element_data_sources[l]]
                   /\ UNCHANGED category_error
                   /\ IF category_cur < Len(CategoryOrder)
                          THEN /\ category_cur' = category_cur + 1
                               /\ UNCHANGED category_pc
                          ELSE /\ category_cur' = 1
                               /\ category_pc' = "operate"
    /\ UNCHANGED <<category_cache_data, category_operation, category_ds_dict,
                   category_found, category_puts>>
    /\ UNCHANGED notCategoryVars

\* AnalysisElement._operate_on_datasets (lines 201-215): nothing for an
\* operation that is not a climatology plot; otherwise one pass of its loop,
\* compute_mon_climatology and then, for an object without the flags,
\* cache_dataset at the locations the two dicts hold for it.
CategoryOperate ==
    /\ category_pc = "operate"
    /\ IF category_operation \notin {"plot_mon_climo", "plot_ann_climo"}
           THEN /\ category_pc' = "constructed"
                /\ UNCHANGED <<element_data_sources, category_cur, category_error,
                               category_puts>>
           ELSE LET label == DataSourceLabel(CategoryOrder[category_cur])
                    computed == ComputeMonClimatology(element_data_sources[label])
                    persists == ShouldCache(category_cache_data,
                                            "compute_mon_climatology", computed)
                IN  IF computed.result # "handle"
                        THEN /\ CategoryRaise(computed.result)
                             /\ UNCHANGED <<element_data_sources, category_cur,
                                            category_puts>>
                    ELSE /\ element_data_sources' =
                                [element_data_sources EXCEPT ![label] = computed]
                         /\ IF persists /\ label \notin DOMAIN cached_locations
                                THEN /\ CategoryRaise("KeyError: data_source")
                                     /\ UNCHANGED <<category_cur, category_puts>>
                                ELSE /\ category_puts' =
                                            IF persists
                                                THEN Append(category_puts,
                                                            cached_locations[label])
                                                ELSE category_puts
                                     /\ UNCHANGED category_error
                                     /\ IF category_cur < Len(CategoryOrder)
                                            THEN /\ category_cur' = category_cur + 1
                                                 /\ UNCHANGED category_pc
                                            ELSE /\ category_pc' = "constructed"
                                                 /\ UNCHANGED category_cur
    /\ UNCHANGED <<category_cache_data, category_operation, category_ds_dict,
                   category_found, cached_locations, cached_var_dicts>>
    /\ UNCHANGED notCategoryVars

-----------------------------------------------------------------------------
(* Specifications                                                          *)

ConfigInputs ==
    /\ analysis_config \in Tiers /\ WellTyped(analysis_config)
    /\ config_dict \in Tiers /\ WellTyped(config_dict)
    /\ analysis_keys \in {{"op", "sources"}, {"op"}, {"sources"}}
    /\ ds_dict \in [{"JRA"} -> {{"source", "open_dataset"}, {"source"}}]
    /\ category_name \in ValidCategories \cup {"zonal_means"}

ConfigPending ==
    /\ self_config_dict = EmptyDict
    /\ element_status = "pending"
    /\ category_settings = EmptyDict
    /\ category_status = "pending"

\* The configuration variables of a specification that resolves nothing.
ConfigIdle ==
    /\ analysis_config = EmptyDict
    /\ config_dict = EmptyDict
    /\ analysis_keys = {"op", "sources"}
    /\ ds_dict = EmptyDict
    /\ category_name = "3d_ann_climo_maps_on_levels"
    /\ ConfigPending

KeysIdle ==
    /\ key_a = [unit |-> "maps", source |-> "JRA", datestr |-> "0033-0052",
                state |-> "no_climo", format |-> "zarr"]
    /\ key_b = key_a
    /\ loc_a = NoLocations
    /\ loc_b = NoLocations
    /\ keys_built = "none"

FsIdle ==
    /\ cache_dir_exists = FALSE
    /\ json_files = [l \in MetaLocations |-> NoFile]
    /\ zarr_stores = [l \in DataLocations |-> NoFile]

PutIdle ==
    /\ put_pc = "idle"
    /\ put_handle = NoHandle
    /\ put_loc = RunLocations(TRUE)["JRA"]
    /\ puts = 0
    /\ prev_record = [json |-> NoFile, store |-> NoFile]
    /\ last_stored = NoHandle
    /\ reopened = NotOpened

\* The unit of a specification that constructs none.
RunIdle ==
    /\ cache_data = FALSE
    /\ cache_dir_set = FALSE
    /\ operations = <<>>
    /\ source_configs = EmptyDict
    /\ data_sources = EmptyDict
    /\ run_pc = "none"
    /\ run_error = ""
    /\ cur_source = 1
    /\ cur_op = 1
    /\ ops_list = <<>>
    /\ lookup_found = EmptyDict
    /\ compute_calls = EmptyDict
    /\ runs = 0

\* The dataset of a specification that computes no climatology.
ClimoIdle ==
    /\ ds = EmptyDict
    /\ ds_created = EmptyDict
    /\ first_month = 0
    /\ climo_pc = "none"
    /\ climo_error = ""
    /\ tb_name = ""

\* The element of a specification that opens no category.
CategoryIdle ==
    /\ category_cache_data = FALSE
    /\ category_operation = ""
    /\ category_ds_dict = EmptyDict
    /\ category_found = EmptyDict
    /\ element_data_sources = EmptyDict
    /\ cached_locations = EmptyDict
    /\ cached_var_dicts = EmptyDict
    /\ category_pc = "none"
    /\ category_cur = 1
    /\ category_error = ""
    /\ category_puts = <<>>

\* The unit of a specification that runs no analysis operation.
PlotIdle ==
    /\ elements_config_dict = EmptyDict
    /\ elements_is_climo = FALSE
    /\ elements_pc = "none"
    /\ elements_error = ""
    /\ global_config = EmptyDict
    /\ plot_datasets = EmptyDict
    /\ field_pattern = ""
    /\ cur_operation = 1
    /\ ref_name = "None"
    /\ figures = <<>>
    /\ fig = NoFigs

InitConfig ==
    ConfigInputs /\ ConfigPending /\ KeysIdle /\ FsIdle /\ PutIdle /\ RunIdle /\ ClimoIdle /\ PlotIdle
        /\ CategoryIdle

NextConfig == GenericAnalysisElement_init \/ AnalysisCategory_init

SpecConfig == InitConfig /\ [][NextConfig]_vars

InitKeys ==
    /\ key_a \in CacheKeys
    /\ key_b \in CacheKeys
    /\ loc_a = NoLocations
    /\ loc_b = NoLocations
    /\ keys_built = "none"
    /\ ConfigIdle /\ FsIdle /\ PutIdle /\ RunIdle /\ ClimoIdle /\ PlotIdle /\ CategoryIdle

NextKeys == BuildElementsLocations \/ BuildCategoryLocations

SpecKeys == InitKeys /\ [][NextKeys]_vars

InitCache ==
    /\ FsIdle
    /\ put_pc = "idle"
    /\ put_handle = NoHandle
    /\ put_loc = RunLocations(TRUE)["JRA"]
    /\ puts = 0
    /\ prev_record = [json |-> NoFile, store |-> NoFile]
    /\ last_stored = NoHandle
    /\ reopened = NotOpened
    /\ ConfigIdle /\ KeysIdle /\ RunIdle /\ ClimoIdle /\ PlotIdle /\ CategoryIdle

NextCache ==
    \/ CallCacheDataset
    \/ RemoveVarDict
    \/ WriteVarDict
    \/ RemoveLocation
    \/ WriteLocation
    \/ Crash
    \/ Restart
    \/ OpenCached

SpecCache == InitCache /\ [][NextCache]_vars

\* cache_dataset on a file system where mkdir and rm can fail.
NextCacheFaults ==
    \/ NextCache
    \/ RemoveVarDictFails
    \/ RemoveLocationFails

SpecCacheFaults == InitCache /\ [][NextCacheFaults]_vars

InitRun ==
    /\ cache_data \in BOOLEAN
    /\ cache_dir_set \in BOOLEAN
    /\ cache_data => cache_dir_set
    /\ operations \in OperationLists
    /\ source_configs \in [RunSources -> SourceConfigs]
    /\ data_sources = [d \in RunSources |-> NoHandle]
    /\ run_pc = "open"
    /\ run_error = ""
    /\ cur_source = 1
    /\ cur_op = 1
    /\ ops_list = <<>>
    /\ lookup_found = [d \in RunSources |-> [store |-> FALSE, json |-> FALSE]]
    /\ compute_calls = [d \in RunSources |-> 0]
    /\ runs = 1
    /\ ConfigIdle /\ KeysIdle /\ FsIdle /\ PutIdle /\ ClimoIdle /\ PlotIdle /\ CategoryIdle

NextRun ==
    \/ OpenDataset
    \/ Operate
    \/ RemoveVarDict
    \/ WriteVarDict
    \/ RemoveLocation
    \/ WriteLocation
    \/ CacheReturned
    \/ DoAnalysis
    \/ NewRun
    \/ DeleteJson

SpecRun == InitRun /\ [][NextRun]_vars

InitClimo ==
    /\ first_month \in 0..11
    /\ \E nsteps \in 1..(12 * MaxYears + 1), pattern \in ValuePatterns,
          bounds_attr \in BoundNames \cup {""}, bound_vars \in SUBSET BoundNames :
          ds = CreateDataSet(first_month, nsteps, pattern, bounds_attr, bound_vars)
    /\ ds_created = ds
    /\ climo_pc \in {"files", "created"}
    /\ climo_error = ""
    /\ tb_name = ""
    /\ ConfigIdle /\ KeysIdle /\ FsIdle /\ PutIdle /\ RunIdle /\ PlotIdle /\ CategoryIdle

NextClimo == GetDataset \/ ComputeMonClimatologyStep \/ ComputeMonClimatologyAgain

SpecClimo == InitClimo /\ [][NextClimo]_vars

InitPlot ==
    /\ elements_config_dict \in ElementsConfigs
    /\ elements_is_climo = FALSE
    /\ elements_pc = "new"
    /\ elements_error = ""
    /\ global_config \in GlobalConfigs
    /\ plot_datasets \in [PlotSourceSet -> [ntime : TimeDims, role : Roles,
                                             has_var : BOOLEAN]]
    /\ field_pattern \in FieldPatterns
    /\ cur_operation = 1
    /\ ref_name = "None"
    /\ figures = <<>>
    /\ fig = NoFigs
    /\ ConfigIdle /\ KeysIdle /\ FsIdle /\ PutIdle /\ RunIdle /\ ClimoIdle /\ CategoryIdle

NextPlot ==
    \/ AnalysisElements_init
    \/ plot_mon_climo
    \/ plot_ann_climo
    \/ plot_state
    \/ MissingOperation

SpecPlot == InitPlot /\ [][NextPlot]_vars

InitCategory ==
    /\ category_cache_data \in BOOLEAN
    /\ category_operation \in CategoryOperations
    /\ category_ds_dict \in [{"JRA", "CORE"} -> SourceConfigs]
    /\ category_found \in [{"JRA", "CORE"} -> [store : BOOLEAN, json : BOOLEAN]]
    /\ element_data_sources = EmptyDict
    /\ cached_locations = EmptyDict
    /\ cached_var_dicts = EmptyDict
    /\ category_pc = "open"
    /\ category_cur = 1
    /\ category_error = ""
    /\ category_puts = <<>>
    /\ ConfigIdle /\ KeysIdle /\ FsIdle /\ PutIdle /\ RunIdle /\ ClimoIdle /\ PlotIdle

NextCategory == CategoryOpenDataset \/ CategoryOperate

SpecCategory == InitCategory /\ [][NextCategory]_vars

-----------------------------------------------------------------------------
(* Properties                                                              *)

\* The value the three tiers give an option: the override tier's when it has
\* the key, else the global tier's when it has it, else the default.
TierValue(k, override, global, defaults) ==
    CASE k \in DOMAIN override -> override[k]
      [] k \notin DOMAIN override /\ k \in DOMAIN global -> global[k]
      [] OTHER -> defaults[k]

(* C1: every option of the built-in defaults resolves, in                  *)
(* GenericAnalysisElement.__init__ and in AnalysisCategory's merge, to the  *)
(* override tier's value when that tier has the key (whatever the value),   *)
(* else to the global tier's value, else to the built-in default.           *)
C1_Precedence ==
    /\ element_status # "pending" =>
           \A k \in DOMAIN config_defaults :
               /\ k \in DOMAIN self_config_dict
               /\ self_config_dict[k] =
                      TierValue(k, analysis_config, config_dict, config_defaults)
    /\ category_status \notin {"pending", "ValueError: not a valid analysis category"} =>
           \A k \in DOMAIN category_settings_defaults(category_name) :
               /\ k \in DOMAIN category_settings
               /\ category_settings[k] =
                      TierValue(k, analysis_config, config_dict,
                                category_settings_defaults(category_name))

\* Both resolutions succeeded on a key that all three tiers hold with
\* different values, the override's being falsy.
C1_Witness ==
    /\ element_status = "ok"
    /\ category_status = "ok"
    /\ "plot_format" \in DOMAIN analysis_config \cap DOMAIN config_dict
    /\ analysis_config["plot_format"] = "None"
    /\ config_dict["plot_format"] = "pdf"
    /\ self_config_dict["plot_format"] = "None"
    /\ category_settings["plot_format"] = "None"
    /\ self_config_dict["dirout"] = config_defaults["dirout"]

\* The four components of a cache key. AnalysisElements knows two states;
\* AnalysisCategory names a data source by its label, source.datestr.
KeyOf(key) ==
    IF keys_built = "AnalysisElements"
        THEN <<key.unit, key.source, ElementsClimoStr(key.state), key.format>>
        ELSE <<key.unit, key.source \o "." \o key.datestr, key.state, key.format>>

(* C5: the locations the orchestrators build are injective in (unit,       *)
(* source, state, format): two keys get the same data location and the     *)
(* same metadata location exactly when all four components are equal.      *)
C5_KeyInjective ==
    keys_built # "none" => ((loc_a = loc_b) <=> (KeyOf(key_a) = KeyOf(key_b)))

\* The two files at the location cache_dataset was called for.
PutJson == json_files[put_loc.meta]
PutStore == zarr_stores[put_loc.data]

(* C3: when cache_dataset stops between two of its steps, the key is       *)
(* afterwards either a miss for the cache lookup or holds the metadata and  *)
(* the data of one and the same call; metadata of one generation never      *)
(* lies beside data of another.                                             *)
C3_CrashSafe ==
    put_pc = "crashed" =>
        \/ Lookup(PutStore, PutJson).result = "miss"
        \/ /\ PutJson.exists
           /\ PutStore.exists
           /\ PutJson.gen = PutStore.gen

(* C4: once cache_dataset has returned, opening the key as a cached        *)
(* artifact gives an object with the variable mapping and the climatology   *)
(* flags of the object that was stored.                                     *)
C4_RoundTrip ==
    (put_pc = "returned" /\ reopened # NotOpened) =>
        /\ reopened.result = "handle"
        /\ reopened.var_dict = last_stored.var_dict
        /\ reopened.is_mon_climo = last_stored.is_mon_climo
        /\ reopened.is_ann_climo = last_stored.is_ann_climo

PartialRecord(d) ==
    cache_data /\ lookup_found[d] = [store |-> TRUE, json |-> FALSE]

C2_PartialRecordIsMiss ==
    \A d \in RunSources :
        PartialRecord(d) =>
            /\ run_error # "FileNotFoundError"
            /\ LET fresh == OpenFresh(source_configs[d])
               IN  fresh.result = "handle" =>
                       /\ data_sources[d].result = "handle"
                       /\ data_sources[d].cls = fresh.cls

\* The data source's climatology state is not raw.
NonRaw(d) ==
    /\ data_sources[d].result = "handle"
    /\ \/ data_sources[d].cls \in {"CachedClimoData", "WOAData"}
       \/ /\ data_sources[d].cls = "CESMData"
          /\ source_configs[d].filetype \in {"mon_climo", "ann_climo"}

(* C7: a step of _operate_on_datasets on a data source whose object is a    *)
(* CachedClimoData, a WOAData or a CESMData opened as mon_climo/ann_climo   *)
(* leaves the object (dataset and flags) as it was and starts no            *)
(* cache_dataset: the files of the cache and the count of cache writes      *)
(* are unchanged.                                                           *)
C7_IdempotentOnClimatology ==
    [][\A d \in RunSources :
          (run_pc = "operate" /\ RunOrder[cur_source] = d /\ NonRaw(d)) =>
              /\ data_sources'[d] = data_sources[d]
              /\ compute_calls'[d] = compute_calls[d] + 1
              /\ run_pc' # "raised"
              /\ put_pc' = put_pc
              /\ puts' = puts
              /\ UNCHANGED fsVars]_vars

C7_Witness ==
    /\ cache_data
    /\ runs = 2
    /\ run_pc = "constructed"
    /\ data_sources["JRA"].result = "handle"
    /\ data_sources["JRA"].cls = "CachedClimoData"
    /\ compute_calls["JRA"] = 2
    /\ data_sources["CORE"].result = "handle"
    /\ data_sources["CORE"].cls = "WOAData"
    /\ compute_calls["CORE"] = 2
    /\ puts = 1

(* C8: once compute_mon_climatology has completed on a CESMData object      *)
(* opened from 'hist' or 'single_variable' files, the object's              *)
(* _is_mon_climo flag is true.                                              *)
C8_TaggedAfterCompute ==
    \A d \in RunSources :
        (/\ data_sources[d].result = "handle"
         /\ data_sources[d].cls = "CESMData"
         /\ source_configs[d].filetype \in {"hist", "single_variable"}
         /\ data_sources[d].ds.reductions >= 1)
            => data_sources[d].is_mon_climo

\* The calendar month (1..12) of time step i of the dataset as created: its
\* steps are consecutive months from first_month.
CalendarMonth(i) == ((first_month + i - 1) % 12) + 1

StepsInMonth(m) == {i \in DOMAIN ds_created.time : CalendarMonth(i) = m}

\* compute_mon_climatology has been called on the dataset.
ClimatologyCalled == climo_pc \notin {"files", "created"}

\* The dataset as created had whole years of time steps and its time bounds.
WholeYears ==
    /\ Len(ds_created.time) % 12 = 0
    /\ TimeBoundVar(ds_created) \in BoundNames

(* C9: compute_mon_climatology on a dataset of 12*n consecutive monthly     *)
(* time steps with its time bounds does not raise and leaves 12 time steps, *)
(* the months 1..12 in order; step m of the time-varying variable is the    *)
(* mean of the n values of calendar month m; the grid variable is as it     *)
(* was; 12 zeros followed by 12 ones give 0.5 at every step.                *)
C9_MonthlyClimatology ==
    (ClimatologyCalled /\ WholeYears) =>
        /\ climo_pc # "raised"
        /\ Len(ds.time) = 12
        /\ Len(ds.var_to_average) = 12
        /\ ds.lat = ds_created.lat
        /\ \A m \in 1..12 :
              /\ ds.time[m] = [month |-> m]
              /\ ds.var_to_average[m].n = Len(ds_created.time) \div 12
              /\ ds.var_to_average[m].sum =
                     SumOver(ds_created.var_to_average, StepsInMonth(m))
              /\ ds_created.var_to_average = VarToAverage("zeros_then_ones", 24)
                     => 2 * ds.var_to_average[m].sum = ds.var_to_average[m].n

C9_Witness ==
    /\ climo_pc = "computed"
    /\ first_month = 0
    /\ ds_created.var_to_average = VarToAverage("zeros_then_ones", 24)
    /\ \A m \in 1..12 : ds.var_to_average[m] = [sum |-> 1, n |-> 2]

(* C10: compute_mon_climatology on a dataset whose number of time steps is  *)
(* not a multiple of 12 raises, and the dataset keeps its time steps and    *)
(* the values of its variables: no climatology replaces them.               *)
C10_TimeAxisValidation ==
    (ClimatologyCalled /\ Len(ds_created.time) % 12 # 0) =>
        /\ climo_pc = "raised"
        /\ climo_error # ""
        /\ Len(ds.time) = Len(ds_created.time)
        /\ ds.var_to_average = ds_created.var_to_average
        /\ ds.time_bound = ds_created.time_bound
        /\ ds.lat = ds_created.lat

C10_Witness ==
    /\ climo_pc = "raised"
    /\ Len(ds_created.time) = 13
    /\ climo_error = "ValueError: Time axis not evenly divisible by 12!"

\* The locations _open_datasets built for a data source of the unit.
LocationsOf(d) == RunLocations(IsClimo(operations))[d]

(* C11: a step of _operate_on_datasets in which compute_mon_climatology     *)
(* raises calls no cache_dataset and leaves every file of the cache as it   *)
(* was; and the program changes a file of the cache only inside a           *)
(* cache_dataset that was entered after the compute_mon_climatology of the  *)
(* same data source had returned, writing the dataset that call left.       *)
C11_ComputeThenCache ==
    [][/\ (run_pc = "operate" /\ run_pc' = "raised") =>
              /\ UNCHANGED fsVars
              /\ UNCHANGED putVars
       /\ (fsVars' # fsVars /\ ~ RunEnded) =>
              /\ run_pc = "caching"
              /\ put_loc = LocationsOf(RunOrder[cur_source])
              /\ compute_calls[RunOrder[cur_source]] >= 1
              /\ put_handle.ds.reductions >= 1]_vars

\* The second data source failed in compute_mon_climatology after the first
\* was computed and cached: nothing lies at the second one's locations.
C11_Witness ==
    /\ cache_data
    /\ run_pc = "raised"
    /\ run_error = "ValueError: Time axis not evenly divisible by 12!"
    /\ cur_source = 2
    /\ compute_calls["CORE"] = 1
    /\ zarr_stores[LocationsOf("JRA").data].exists
    /\ ~ zarr_stores[LocationsOf("CORE").data].exists
    /\ ~ json_files[LocationsOf("CORE").meta].exists

\* Neither flag of the object is set.
Untagged(h) == ~ (h.is_mon_climo \/ h.is_ann_climo)

(* C12: a step of _operate_on_datasets that does not raise enters           *)
(* cache_dataset for its data source, with the source's locations and       *)
(* object, exactly when cache_data is true and neither _is_mon_climo nor    *)
(* _is_ann_climo of the object is set; otherwise nothing of cache_dataset   *)
(* or of the cache changes.                                                 *)
C12_PersistCondition ==
    [][(run_pc = "operate" /\ run_pc' # "raised") =>
           LET d == RunOrder[cur_source]
               entered == /\ put_pc' = "rm_var_dict"
                          /\ puts' = puts + 1
                          /\ put_loc' = LocationsOf(d)
                          /\ put_handle' = data_sources'[d]
           IN  /\ entered <=> (cache_data /\ Untagged(data_sources'[d]))
               /\ ~ entered => UNCHANGED putVars
               /\ UNCHANGED fsVars]_vars

\* A unit with caching was constructed: the computed CESM source was
\* written, the World Ocean Atlas source was not.
C12_Witness ==
    /\ cache_data
    /\ run_pc = "constructed"
    /\ runs = 1
    /\ puts = 1
    /\ data_sources["JRA"].cls = "CESMData"
    /\ Untagged(data_sources["JRA"])
    /\ zarr_stores[LocationsOf("JRA").data].exists
    /\ data_sources["CORE"].cls = "WOAData"
    /\ ~ zarr_stores[LocationsOf("CORE").data].exists

\* The data source was opened by the opener of its kind, not from the cache.
OpenedFresh(d) ==
    /\ data_sources[d].result = "handle"
    /\ data_sources[d].cls \in {"CESMData", "WOAData"}

\* The step is one of _operate_on_datasets in which the operation replaces
\* the dataset of a freshly opened data source d while caching is enabled.
OperationMutates(d) ==
    /\ cache_data
    /\ run_pc = "operate"
    /\ RunOrder[cur_source] = d
    /\ OpenedFresh(d)
    /\ run_pc' # "raised"
    /\ data_sources'[d].ds # data_sources[d].ds

StoreAt(d, is_climo) == zarr_stores[RunLocations(is_climo)[d].data]

(* C14: of the two cache keys of a unit and a data source, the one with     *)
(* state 'no_climo' never holds climatology data and the one with state     *)
(* 'climo' never holds raw data; an object fetched from the cache by a unit *)
(* that asks for no climatology never holds climatology data, and one       *)
(* fetched by a unit that asks for climatology never holds raw data.        *)
C14_RawAndClimoKeysApart ==
    \A d \in RunSources :
        /\ StoreAt(d, FALSE).exists => StoreAt(d, FALSE).ds.content = "raw"
        /\ StoreAt(d, TRUE).exists => StoreAt(d, TRUE).ds.content # "raw"
        /\ (data_sources[d].result = "handle"
               /\ data_sources[d].cls = "CachedClimoData") =>
               IF IsClimo(operations)
                   THEN data_sources[d].ds.content # "raw"
                   ELSE data_sources[d].ds.content = "raw"

\* A first run cached the climatology of the first data source; a second run
\* of the unit, now asking for no climatology, looked under the 'no_climo'
\* key and opened the raw history files.
C14_Witness ==
    /\ cache_data
    /\ runs = 2
    /\ run_pc = "constructed"
    /\ ~ IsClimo(operations)
    /\ StoreAt("JRA", TRUE).exists
    /\ StoreAt("JRA", TRUE).ds.content = "mon_climo"
    /\ ~ StoreAt("JRA", FALSE).exists
    /\ data_sources["JRA"].cls = "CESMData"
    /\ data_sources["JRA"].ds.content = "raw"

\* What _check asks of the analysis section and of the data sources, the
\* configuration options aside.
ElementOtherwiseValid ==
    /\ RequiredAnalysisKeys \subseteq ({"config"} \cup analysis_keys)
    /\ \A data_source \in DOMAIN ds_dict : RequiredSourceKeys \subseteq ds_dict[data_source]

\* Some tier supplies cache_dir.
CacheDirSupplied == "cache_dir" \in DOMAIN analysis_config \cup DOMAIN config_dict

\* The keys of the merged category settings, cache_dir aside, are all keys
\* of the category's defaults.
SettingsRecognized ==
    (DOMAIN category_settings \ {"cache_dir"})
        \subseteq DOMAIN category_settings_defaults(category_name)

CategoryResolved ==
    category_status \notin {"pending", "ValueError: not a valid analysis category"}

(* C15: when cache_data resolves true and no tier supplies cache_dir the    *)
(* resolution fails; when cache_data resolves true and cache_dir is         *)
(* supplied, or when cache_data resolves false and cache_dir is not         *)
(* supplied, a configuration with nothing else wrong is accepted.           *)
C15_CacheDirConditional ==
    /\ element_status # "pending" =>
           LET caching == Truthy(self_config_dict["cache_data"])
           IN  /\ (caching /\ ~ CacheDirSupplied) => element_status # "ok"
               /\ (caching /\ CacheDirSupplied /\ ElementOtherwiseValid) =>
                      element_status = "ok"
               /\ (~ caching /\ ~ CacheDirSupplied /\ ElementOtherwiseValid) =>
                      element_status = "ok"
    /\ CategoryResolved =>
           LET caching == Truthy(category_settings["cache_data"])
           IN  /\ (caching /\ ~ CacheDirSupplied) => category_status # "ok"
               /\ (caching /\ CacheDirSupplied /\ SettingsRecognized) =>
                      category_status = "ok"
               /\ (~ caching /\ ~ CacheDirSupplied /\ SettingsRecognized) =>
                      category_status = "ok"

\* The keys of the override tier that no configuration option is named by.
UnrecognizedOverrides(defaults, caching) ==
    DOMAIN analysis_config \ (DOMAIN defaults \cup (IF caching THEN {"cache_dir"} ELSE {}))

(* C16: when the override tier holds a key that is no key of the built-in   *)
(* defaults (nor cache_dir with cache_data true), the resolution raises the *)
(* 'unrecognized setting' error, and the key is not in the resolved         *)
(* configuration.                                                           *)
C16_UnrecognizedRejected ==
    /\ element_status # "pending" =>
           LET unknown == UnrecognizedOverrides(config_defaults,
                                                Truthy(self_config_dict["cache_data"]))
           IN  unknown # {} =>
                   /\ element_status = "KeyError: Unrecognized setting"
                   /\ unknown \cap DOMAIN self_config_dict = {}
    /\ CategoryResolved =>
           LET unknown == UnrecognizedOverrides(category_settings_defaults(category_name),
                                                Truthy(category_settings["cache_data"]))
           IN  unknown # {} => category_status = "KeyError: Unrecognized setting"

\* Every key that _check requires is there: the configuration options, the
\* keys of the analysis section, the keys of every data source, and
\* cache_dir when cache_data is set.
AllRequiredPresent ==
    /\ RequiredConfigKeys \subseteq DOMAIN self_config_dict
    /\ ElementOtherwiseValid
    /\ Truthy(self_config_dict["cache_data"]) => CacheDirSupplied

(* C17: _check raises when a key required of the analysis unit or of one of *)
(* its data sources is missing (an empty analysis section included), and    *)
(* raises nothing when every required key is present.                       *)
C17_MissingRequiredKey ==
    element_status # "pending" =>
        /\ ~ (RequiredConfigKeys \subseteq DOMAIN self_config_dict /\ ElementOtherwiseValid)
               => element_status # "ok"
        /\ analysis_keys = {} => element_status # "ok"
        /\ AllRequiredPresent => element_status = "ok"

\* AnalysisElements.__init__ acts in this step.
ElementsInitStep == elements_pc = "new" /\ elements_pc' # "new"

(* C18: with an operation whose name contains 'climo' and no               *)
(* climo_time_periods in the configuration, AnalysisElements.__init__ sets  *)
(* climo_time_periods to ['ANN'] for an 'ann_climo' operation and to the    *)
(* five windows for a 'mon_climo' operation; climo_time_periods that the    *)
(* configuration supplies stay as they are; and the unit is rejected when   *)
(* one of its 'climo' operations is neither annual nor monthly.             *)
C18_DefaultClimoWindows ==
    [][ElementsInitStep =>
          LET cfg == elements_config_dict
              ops == cfg.operations
              climo_ops == {i \in DOMAIN ops : ContainsClimo(ops[i])}
              op == ops[CHOOSE i \in climo_ops : \A j \in climo_ops : i <= j]
              supplied == "climo_time_periods" \in DOMAIN cfg
          IN  /\ (climo_ops # {} /\ ~ supplied /\ ContainsAnnClimo(op)) =>
                     /\ elements_pc' = "analysis"
                     /\ elements_config_dict'.climo_time_periods = <<"ANN">>
              /\ (climo_ops # {} /\ ~ supplied /\ ContainsMonClimo(op)) =>
                     /\ elements_pc' = "analysis"
                     /\ elements_config_dict'.climo_time_periods =
                            <<"ANN", "DJF", "MAM", "JJA", "SON">>
              /\ supplied =>
                     /\ "climo_time_periods" \in DOMAIN elements_config_dict'
                     /\ elements_config_dict'.climo_time_periods = cfg.climo_time_periods
              /\ (\E i \in climo_ops :
                     ~ ContainsAnnClimo(ops[i]) /\ ~ ContainsMonClimo(ops[i])) =>
                     /\ elements_pc' = "raised"
                     /\ elements_error' = "ValueError: not a valid operation"]_vars

\* The time steps of a 12-step monthly climatology that each window covers.
WindowIndices ==
    [ANN |-> {0, 1, 2, 3, 4, 5, 6, 7, 8, 9, 10, 11},
     DJF |-> {11, 0, 1},
     MAM |-> {2, 3, 4},
     JJA |-> {5, 6, 7},
     SON |-> {8, 9, 10}]

\* The data sources that hold the plotted variable.
SourcesWithVariable == {d \in PlotSourceSet : plot_datasets[d].has_var}

\* The figures plot_mon_climo drew panels in.
MonClimoFigures ==
    {k \in DOMAIN figures : figures[k].op = "plot_mon_climo" /\ figures[k].panels # <<>>}

(* C19: every figure plot_mon_climo draws for a window has one panel for    *)
(* each data source, and the field of the panel is the mean of the 12-step  *)
(* climatology over exactly the time steps of the window: 0..11 for ANN,    *)
(* {11, 0, 1} for DJF, {2, 3, 4} for MAM, {5, 6, 7} for JJA and {8, 9, 10}  *)
(* for SON, wherever the window stands in climo_time_periods.               *)
C19_ClimatologyWindows ==
    \A k \in MonClimoFigures :
        LET window == figures[k].name
            panels == figures[k].panels
            values == FieldValues(field_pattern, 12)
        IN  /\ window \in DOMAIN WindowIndices
            /\ {panels[i].title : i \in DOMAIN panels} = SourcesWithVariable
            /\ Len(panels) = Cardinality(SourcesWithVariable)
            /\ \A i \in DOMAIN panels :
                   /\ panels[i].field.sum = SumOver(values, WindowIndices[window])
                   /\ panels[i].field.n = Cardinality(WindowIndices[window])

\* DJF, listed after other windows, was drawn from a climatology holding
\* 2^i at time step i: its mean is (2^11 + 2^0 + 2^1) / 3.
C19_Witness ==
    /\ field_pattern = "powers"
    /\ elements_pc = "done"
    /\ \E k \in MonClimoFigures :
          /\ k > 1
          /\ figures[k].name = "DJF"
          /\ figures[k].saved
          /\ figures[k].panels[1].field = [sum |-> 2051, n |-> 3]

\* The data sources whose role is 'reference'.
ReferenceRoles == {d \in PlotSourceSet : plot_datasets[d].role = "reference"}

\* do_analysis calls op in this step.
RenderStep(op) ==
    /\ elements_pc = "analysis"
    /\ CurrentOperation = op
    /\ (elements_pc' # "analysis" \/ cur_operation' # cur_operation)

\* The step created one figure whose first panel is d's.
RenderedFirst(d) ==
    /\ Len(figures') = Len(figures) + 1
    /\ figures'[Len(figures')].panels[1].title = d

CacheWriteInProgress == put_pc \notin {"idle", "returned", "raised"}

\* Every data source of the unit has been opened or fetched from the cache.
AllOpened == \A d \in RunSources : data_sources[d].result = "handle"

(* C21: the steps never overlap and come in order: while cache_dataset is   *)
(* running nothing else moves; a climatology is computed only on a source   *)
(* that has been opened; a cache write starts only for the source whose     *)
(* climatology was just computed; and do_analysis starts only when every    *)
(* source of the unit is opened, has had all its operations, and no cache   *)
(* write is running.                                                        *)
C21_SequentialOrder ==
    [][/\ CacheWriteInProgress => run_pc = "caching"
       /\ compute_calls' # compute_calls /\ runs' = runs =>
              /\ run_pc = "operate"
              /\ AllOpened
              /\ ~ CacheWriteInProgress
       /\ (put_pc' = "rm_var_dict" /\ put_pc # "rm_var_dict") =>
              /\ run_pc = "operate"
              /\ compute_calls'[RunOrder[cur_source]] =
                     compute_calls[RunOrder[cur_source]] + 1
              /\ put_loc' = LocationsOf(RunOrder[cur_source])
       /\ (run_pc' = "analysed" /\ run_pc # "analysed") =>
              /\ AllOpened
              /\ ~ CacheWriteInProgress
              /\ \A d \in RunSources : compute_calls[d] = Len(ops_list)
              /\ UNCHANGED <<fsVars, putVars, data_sources>>]_vars

\* The unit was constructed with both climatologies computed and written to
\* the cache, and do_analysis was then called.
C21_Witness ==
    /\ run_pc = "analysed"
    /\ cache_data
    /\ runs = 1
    /\ puts = 2
    /\ \A d \in RunSources :
          /\ compute_calls[d] >= 1
          /\ zarr_stores[LocationsOf(d).data].exists

\* The kinds of data source _open_datasets has an opener for.
SupportedKinds == {"cesm", "woa2005", "woa2013"}

\* _open_datasets is about to open data source d, whose kind is not
\* supported and which the cache does not serve.
OpensUnknownKind(d) ==
    /\ run_pc = "open"
    /\ RunOrder[cur_source] = d
    /\ cache_dir_set
    /\ source_configs[d].source \notin SupportedKinds
    /\ ~ (cache_data /\ zarr_stores[LocationsOf(d).data].exists)

UnknownSourceRaised == run_pc = "raised" /\ run_error = "ValueError: Unknown source"

(* C22: opening a data source of an unsupported kind that the cache does    *)
(* not serve raises "Unknown source"; the unit is then abandoned: in that   *)
(* run no climatology has been or is computed, no cache write is made and   *)
(* do_analysis is never called.                                             *)
C22_UnknownSourceKind ==
    [][/\ \A d \in RunSources :
              (OpensUnknownKind(d) /\ run_pc' # "open") =>
                  /\ UnknownSourceRaised'
                  /\ data_sources'[d] = NoHandle
       /\ UnknownSourceRaised =>
              /\ \A d \in RunSources : compute_calls[d] = 0
              /\ ~ CacheWriteInProgress
              /\ run_pc' # "analysed"
              /\ runs' = runs => UNCHANGED <<zarr_stores, putVars, data_sources,
                                             compute_calls, run_pc>>]_vars

\* The first data source was opened, the second is of the kind 'obs': the
\* unit raised with nothing computed although a climatology was asked for.
C22_Witness ==
    /\ UnknownSourceRaised
    /\ IsClimo(operations)
    /\ cur_source = 2
    /\ source_configs["CORE"].source = "obs"
    /\ data_sources["JRA"].result = "handle"
    /\ data_sources["JRA"].ds.content = "raw"
    /\ data_sources["CORE"] = NoHandle
    /\ compute_calls["JRA"] = 0

\* _open_datasets is about to open data source d through CESMData, with a
\* filetype _get_dataset knows.
OpensModelOutput(d) ==
    /\ run_pc = "open"
    /\ RunOrder[cur_source] = d
    /\ cache_dir_set
    /\ source_configs[d].source = "cesm"
    /\ source_configs[d].filetype \in {"hist", "mon_climo", "ann_climo",
                                        "single_variable"}
    /\ ~ (cache_data /\ zarr_stores[LocationsOf(d).data].exists)

DefinedWindows(op) ==
    IF op = "plot_mon_climo" THEN {"ANN", "DJF", "MAM", "JJA", "SON"} ELSE {"ANN"}

\* The operation gets as far as the loop over the time periods, with a data
\* source to reduce: the time dimensions and the grid are accepted, the
\* unit has its attribute fig and some data source holds the variable.
ReachesReduction(op) ==
    /\ \A d \in PlotSourceSet :
           plot_datasets[d].ntime \in (IF op = "plot_mon_climo" THEN {12} ELSE {1, 12})
    /\ global_config.grid = "POP_gx1v7"
    /\ fig.exists
    /\ SourcesWithVariable # {}

\* The places in climo_time_periods of the windows op does not define.
UnknownWindows(op) ==
    {k \in DOMAIN elements_config_dict.climo_time_periods :
        elements_config_dict.climo_time_periods[k] \notin DefinedWindows(op)}

(* C24: when climo_time_periods holds a window that the operation does not  *)
(* define (a name outside ANN, DJF, MAM, JJA, SON for plot_mon_climo, a     *)
(* name other than ANN for plot_ann_climo) and the operation gets to the    *)
(* reduction, it raises KeyError at the first such window: the figure of    *)
(* that window has no panel and is not saved, and no later window is        *)
(* drawn; the operation does not go on as if the window had not been asked. *)
C24_UnknownWindow ==
    [][\A op \in {"plot_mon_climo", "plot_ann_climo"} :
          (RenderStep(op) /\ ReachesReduction(op) /\ UnknownWindows(op) # {}) =>
              LET first == CHOOSE k \in UnknownWindows(op) :
                               \A j \in UnknownWindows(op) : k <= j
                  last == figures'[Len(figures')]
              IN  /\ elements_pc' = "raised"
                  /\ elements_error' = "KeyError: not a known time period"
                  /\ Len(figures') = Len(figures) + first
                  /\ last.name = elements_config_dict.climo_time_periods[first]
                  /\ last.panels = <<>>
                  /\ ~ last.saved]_vars

\* plot_mon_climo drew ANN and then raised at the window JFM.
C24_Witness ==
    /\ elements_pc = "raised"
    /\ elements_error = "KeyError: not a known time period"
    /\ elements_config_dict.operations[cur_operation] = "plot_mon_climo"
    /\ elements_config_dict.climo_time_periods = <<"ANN", "JFM">>
    /\ Len(figures) = 2
    /\ figures[1].name = "ANN" /\ figures[1].panels # <<>>
    /\ figures[2].name = "JFM" /\ figures[2].panels = <<>> /\ ~ figures[2].saved

\* cache_dataset is about to write a file that its preparation was to make
\* room for, and the directory is not there or the previous file still is.
LeftoverAtWrite ==
    \/ put_pc = "write_var_dict" /\ (~ cache_dir_exists \/ PutJson.exists)
    \/ put_pc = "write_location" /\ PutStore.exists

(* C25: in cache_dataset, when making a parent directory or removing the    *)
(* previous .json file or data payload has failed, the call ends in an      *)
(* error and writes nothing over what was left.                             *)
C25_WriteFailuresSurface ==
    [][LeftoverAtWrite => /\ put_pc' \in {"raised", "crashed"}
                          /\ UNCHANGED fsVars]_vars

\* The dataset has neither the time attribute 'bounds' nor the variable
\* time_bound.
NoTimeBounds(dataset) ==
    /\ "bounds" \notin dataset.time_attrs
    /\ "time_bound" \notin dataset.bound_vars

(* C26: the time bounds variable is the one the time attribute 'bounds'     *)
(* names when the attribute is there, otherwise time_bound when the dataset *)
(* has it; with neither, opening the model output still succeeds and        *)
(* compute_mon_climatology raises "No time_bound variable found" with the   *)
(* dataset as it was.                                                       *)
C26_TimeBoundsLookup ==
    [][/\ climo_pc = "files" =>
              /\ climo_pc' = "created" /\ climo_error' = ""
              /\ "bounds" \in ds.time_attrs => tb_name' = ds.bounds
              /\ ("bounds" \notin ds.time_attrs /\ "time_bound" \in ds.bound_vars)
                     => tb_name' = "time_bound"
       /\ climo_pc = "created" =>
              /\ ("bounds" \in ds.time_attrs /\ ds.bounds \in ds.bound_vars)
                     => (tb_name' = ds.bounds /\ climo_error' # TimeBoundVar(ds))
              /\ ("bounds" \notin ds.time_attrs /\ "time_bound" \in ds.bound_vars)
                     => (tb_name' = "time_bound" /\ climo_error' # TimeBoundVar(ds))
              /\ NoTimeBounds(ds) =>
                     /\ climo_pc' = "raised"
                     /\ climo_error' = "ValueError: No time_bound variable found"
                     /\ ds' = ds]_vars

\* compute_mon_climatology raised on a dataset of one year that has neither
\* the attribute nor the variable, and the dataset is as it was.
C26_Witness ==
    /\ climo_pc = "raised"
    /\ climo_error = "ValueError: No time_bound variable found"
    /\ NoTimeBounds(ds_created)
    /\ ds = ds_created
    /\ Len(ds.time) = 12
    /\ tb_name = ""

\* The loop of AnalysisCategory._open_datasets has been through the i-th
\* data source.
CategoryProcessed(i) ==
    \/ category_pc \in {"operate", "constructed"}
    \/ category_pc = "open" /\ i < category_cur
    \/ category_pc = "raised" /\ i <= category_cur

(* C27: with cache_data on and no data payload at the cache location of a   *)
(* data source, AnalysisCategory._open_datasets opens the data source       *)
(* through the opener of its kind; and once _open_datasets is through,      *)
(* every data source of the element has its object.                         *)
C27_FreshOpenOnMiss ==
    /\ \A i \in DOMAIN CategoryOrder :
          LET data_source == CategoryOrder[i]
              label == DataSourceLabel(data_source)
          IN  (/\ category_pc # "none"
               /\ CategoryProcessed(i)
               /\ category_cache_data
               /\ ~ category_found[data_source].store
               /\ OpenFresh(category_ds_dict[data_source]).result = "handle")
                  => /\ label \in DOMAIN element_data_sources
                     /\ element_data_sources[label].cls # "CachedClimoData"
    /\ category_pc \in {"operate", "constructed"} =>
           DOMAIN element_data_sources = CategoryLabels

(* C30: with cache_data on, once AnalysisCategory._open_datasets has been   *)
(* through all data sources of an element, _cached_locations and            *)
(* _cached_var_dicts hold an entry for every data source label of the       *)
(* element, and _operate_on_datasets finds the locations of every object it *)
(* persists.                                                                *)
C30_RegistryComplete ==
    /\ (category_cache_data /\ category_pc \in {"operate", "constructed"}) =>
           /\ DOMAIN cached_locations = CategoryLabels
           /\ DOMAIN cached_var_dicts = CategoryLabels
    /\ category_error # "KeyError: data_source"

\* The section of data source d opens raw model output.
RawModelOutput(d) ==
    /\ source_configs[d].source = "cesm"
    /\ source_configs[d].filetype \in {"hist", "single_variable"}

\* Both files of a record lie at the locations of data source d.
Recorded(d) ==
    /\ zarr_stores[LocationsOf(d).data].exists
    /\ json_files[LocationsOf(d).meta].exists

\* The step ends the construction of a unit that caches its data.
CompletesWithCache == run_pc \in {"open", "operate", "caching"} /\ run_pc' = "constructed"
                          /\ cache_data

\* Within a run, a data source whose record lies in the cache is opened as
\* CachedClimoData; its object and both files of its record then stay as
\* they are and no cache_dataset is called for it.
ServedFromCache(d) ==
    /\ (/\ run_pc = "open" /\ RunOrder[cur_source] = d
        /\ cache_data /\ Recorded(d))
           => /\ data_sources'[d].result = "handle"
              /\ data_sources'[d].cls = "CachedClimoData"
              /\ data_sources'[d].ds = zarr_stores[LocationsOf(d).data].ds
    /\ (/\ ~ RunEnded
        /\ data_sources[d].result = "handle"
        /\ data_sources[d].cls = "CachedClimoData")
           => /\ data_sources'[d] = data_sources[d]
              /\ zarr_stores'[LocationsOf(d).data] = zarr_stores[LocationsOf(d).data]
              /\ json_files'[LocationsOf(d).meta] = json_files[LocationsOf(d).meta]
              /\ (run_pc = "operate" /\ RunOrder[cur_source] = d) => run_pc' # "caching"

C29_UnchangedOnError ==
    (/\ climo_pc = "raised"
     /\ climo_error \in {"ValueError: No time_bound variable found",
                         "ValueError: Time axis not evenly divisible by 12!"})
        => /\ ds = ds_created
           /\ ds.time = ds_created.time

====
